---- MODULE Spec2Model ----
(***************************************************************************)
(* Earley recognizer and tree reconstructor of earleybird                  *)
(* (src/src/parser.rs) over grammars of src/src/grammar.rs.                *)
(*                                                                         *)
(* Characters are one-character strings; Ord gives their code points.      *)
(* TraceIds are 0-based as in the source: task id n lives at arena[n+1].   *)
(***************************************************************************)
EXTENDS Integers, Sequences, FiniteSets, TLC

VARIABLES
    grammar,          \* Parser.grammar
    input,            \* InputIter.tokens of the running parse
    traces,           \* Parser.traces: [arena, queue, continuations, hashes]
    completed_trace,  \* Parser.completed_trace
    farthest_pos,     \* Parser.farthest_pos
    pc,               \* position inside Parser::parse
    result,           \* the value parse returned
    last,             \* the loop step just taken (history variable)
    contexts,         \* RuleContext.next_id of the live context of each rule name
    calls,            \* the define/mark_define calls made so far (history variable)
    earlier           \* [input, result] of the parse calls that returned before the
                      \* running one, oldest first (history variable)

vars == <<grammar, input, traces, completed_trace, farthest_pos, pc, result, last,
          contexts, calls, earlier>>

-----------------------------------------------------------------------------
(* Bounds of the model *)

\* longest input tried
MaxLen == 3
\* most define/mark_define calls on one grammar
MaxCalls == 2
\* how far past the end of the input an item may get before the run is cut
Overrun == 2
\* depth budget of the tree walk
WalkFuel == 40

\* parse calls made on one Parser value after its first
MaxReuse == 1

-----------------------------------------------------------------------------
(* Characters *)

\* InputIter::get_at returns '\x1f' at or past the end of input
EOFCHAR == "<1f>"

\* the printable ASCII characters in code order (the grave accent, 96, left out)
Ascii ==
   <<" ", "!", "\"", "#", "$", "%", "&", "'", "(", ")", "*", "+", ",", "-", ".", "/",
      "0", "1", "2", "3", "4", "5", "6", "7", "8", "9", ":", ";", "<", "=", ">", "?",
      "@", "A", "B", "C", "D", "E", "F", "G", "H", "I", "J", "K", "L", "M", "N", "O",
      "P", "Q", "R", "S", "T", "U", "V", "W", "X", "Y", "Z", "[", "\\", "]", "^", "_",
      "a", "b", "c", "d", "e", "f", "g", "h", "i", "j", "k", "l", "m", "n", "o", "p",
      "q", "r", "s", "t", "u", "v", "w", "x", "y", "z", "{", "|", "}", "~" >>

\* char as u32, for the comparisons of CharMatcher::Range
Ord(ch) ==
    IF ch = EOFCHAR THEN 31
    ELSE IF ch = "\t" THEN 9 ELSE IF ch = "\n" THEN 10 ELSE IF ch = "\r" THEN 13
    ELSE LET i == CHOOSE k \in 1..Len(Ascii) : Ascii[k] = ch
         IN  IF i <= 64 THEN 31 + i ELSE 32 + i

-----------------------------------------------------------------------------
(* grammar.rs: marks, factors, character classes *)

Mark == {"Default", "Unmute", "Mute", "Attr"}
TMark == {"Default", "Unmute", "Mute"}

\* Display for Mark and TMark
MarkStr(m) ==
    CASE m = "Default" -> ""
      [] m = "Unmute" -> "^"
      [] m = "Mute" -> "-"
      [] m = "Attr" -> "@"

\* CharMatcher variants, one record shape for all
Exact(ch) == [k |-> "Exact", lst |-> <<ch>>, bot |-> ch, top |-> ch]
OneOf(lst) == [k |-> "OneOf", lst |-> lst, bot |-> "", top |-> ""]
Range(bot, top) == [k |-> "Range", lst |-> <<>>, bot |-> bot, top |-> top]

SeqToSet(s) == {s[i] : i \in 1..Len(s)}

\* CharMatcher::accept with a range that leaves its top out
CharMatcher_accept_open(m, test) ==
    CASE m.k = "Exact" -> m.bot = test
      [] m.k = "OneOf" -> test \in SeqToSet(m.lst)
      [] m.k = "Range" -> Ord(test) < Ord(m.top) /\ Ord(test) >= Ord(m.bot)

\* CharMatcher::accept
CharMatcher_accept(m, test) ==
    CASE m.k = "Exact" -> m.bot = test
      [] m.k = "OneOf" -> test \in SeqToSet(m.lst)
      [] m.k = "Range" -> Ord(test) <= Ord(m.top) /\ Ord(test) >= Ord(m.bot)

\* Lit: matchers and is_exclude
Lit(matchers, is_exclude) == [matchers |-> matchers, is_exclude |-> is_exclude]
NoLit == Lit(<<>>, FALSE)

\* Lit::accept
Lit_accept(lit, test) ==
    IF lit.is_exclude
    THEN ~(\E i \in 1..Len(lit.matchers) : CharMatcher_accept(lit.matchers[i], test))
    ELSE \E i \in 1..Len(lit.matchers) : CharMatcher_accept(lit.matchers[i], test)

\* Factor::Terminal(tmark, lit) and Factor::Nonterm(mark, name)
Terminal(tmark, lit) == [t |-> "Terminal", mark |-> tmark, name |-> "", lit |-> lit]
Nonterm(mark, name) == [t |-> "Nonterm", mark |-> mark, name |-> name, lit |-> NoLit]

\* SeqBuilder primitives used to write the grammars below
ch(c) == Terminal("Default", Lit(<<Exact(c)>>, FALSE))
mark_ch(c, tmark) == Terminal(tmark, Lit(<<Exact(c)>>, FALSE))
ch_in(lst) == Terminal("Default", Lit(<<OneOf(lst)>>, FALSE))
mark_ch_in(lst, tmark) == Terminal(tmark, Lit(<<OneOf(lst)>>, FALSE))
ch_range(bot, top) == Terminal("Default", Lit(<<Range(bot, top)>>, FALSE))
ch_not_in(lst) == Terminal("Default", Lit(<<OneOf(lst)>>, TRUE))
nt(name) == Nonterm("Default", name)
mark_nt(name, mark) == Nonterm(mark, name)

\* BranchingRule
BranchingRule(mark, alts) == [mark |-> mark, alts |-> alts]

RECURSIVE JoinStr(_, _)
JoinStr(strs, sep) ==
    IF Len(strs) = 0 THEN ""
    ELSE IF Len(strs) = 1 THEN strs[1]
    ELSE LET half == Len(strs) \div 2
         IN JoinStr(SubSeq(strs, 1, half), sep) \o sep
                \o JoinStr(SubSeq(strs, half + 1, Len(strs)), sep)

\* Display for CharMatcher
CharMatcherStr(m) ==
    CASE m.k = "Exact" -> "'" \o m.bot \o "'"
      [] m.k = "OneOf" -> "[\"" \o JoinStr(m.lst, "") \o "\"]"
      [] m.k = "Range" -> "[\"" \o m.bot \o "\"-\"" \o m.top \o "\"]"

\* Display for Lit
LitStr(lit) ==
    (IF lit.is_exclude THEN "~" ELSE "") \o "["
      \o JoinStr([i \in 1..Len(lit.matchers) |-> CharMatcherStr(lit.matchers[i])], " | ")
      \o "]"

\* Display for Factor
FactorStr(f) ==
    IF f.t = "Terminal" THEN MarkStr(f.mark) \o LitStr(f.lit)
    ELSE MarkStr(f.mark) \o f.name

\* Option::None of a name and of a rule; Err(ParseError::StaticError) in the place
\* of a rule: as Result::iter of an Err, its alternatives are none
NoName == ""
NoRule == [mark |-> "None", alts |-> <<>>]
StaticErr == "StaticError"
ErrRule == [mark |-> StaticErr, alts |-> <<>>]

\* Grammar::get_root_definition_name
get_root_definition_name(g) == IF g.defn_order = <<>> THEN NoName ELSE g.defn_order[1]

\* HashMap::contains_key on the definitions
contains_key(g, name) == name \in DOMAIN g.definitions

\* Grammar::get_definition
get_definition(g, name) == IF ~contains_key(g, name) THEN ErrRule ELSE g.definitions[name]

\* Grammar::get_definition_mark
get_definition_mark(g, name) ==
    IF ~contains_key(g, name) THEN StaticErr ELSE g.definitions[name].mark

\* a root rule that is there whatever the grammar holds
get_root_definition_some(g) ==
    IF g.defn_order = <<>> THEN [mark |-> "Default", alts |-> <<>>]
    ELSE get_definition(g, g.defn_order[1])

\* Grammar::get_root_definition
get_root_definition(g) ==
    IF g.defn_order = <<>> THEN NoRule ELSE get_definition(g, g.defn_order[1])

-----------------------------------------------------------------------------
(* Grammars the parser is run on, as Grammar values {definitions, defn_order}, *)
(* each with the characters its inputs are drawn from.                         *)

Grammar(defn_order, definitions) == [defn_order |-> defn_order, definitions |-> definitions]

-----------------------------------------------------------------------------
(* grammar.rs: RuleContext, SeqBuilder and Grammar::mark_define.  A HashMap is *)
(* a function on its keys.  A builder is [factors, syn_rules, defn_order,      *)
(* status]; status leaves "ok" when an expect() of the builder panics.  The    *)
(* counter of the RuleContext the builders of a rule share is passed along:    *)
(* an operation that mints names takes it as nid and returns [b, nid].         *)

EmptyMap == [x \in {} |-> <<>>]
MapPut(m, k, v) == (k :> v) @@ m
MapRemove(m, k) == EmptyMap @@ [x \in DOMAIN m \ {k} |-> m[x]]

\* Vec::contains
Contains(s, x) == \E i \in 1..Len(s) : s[i] = x

\* Grammar::new
Grammar_new == Grammar(<<>>, EmptyMap)

\* RuleContext::new: the first id minted is 1
FirstId == 1

\* SeqBuilder::new, which RuleContext::seq calls
SeqBuilder_new == [factors |-> <<>>, syn_rules |-> EmptyMap, defn_order |-> <<>>, status |-> "ok"]

\* the push of one factor that ch, mark_ch, ch_in, ch_range, nt and mark_nt end with
push_factor(b, factor) == [b EXCEPT !.factors = Append(@, factor)]

\* mint_internal_id that leaves the counter of the context where it is
mint_internal_id_same(rulename, nid, hint) ==
    [name |-> "--" \o rulename \o "." \o hint \o ToString(nid), nid |-> nid]

\* SeqBuilder::mint_internal_id with RuleContext::get_and_increment_next_id
mint_internal_id(rulename, nid, hint) ==
    [name |-> "--" \o rulename \o "." \o hint \o ToString(nid), nid |-> nid + 1]

\* SeqBuilder::expr
expr(b, sub) == [b EXCEPT !.factors = @ \o sub.factors]

\* F of the values of x and y, each evaluated once and not once for every use
Bind1(F(_), x) == CHOOSE r \in {F(v) : v \in {x}} : TRUE
Bind2(F(_, _), x, y) == CHOOSE r \in {F(v, w) : v \in {x}, w \in {y}} : TRUE

\* SeqBuilder::siphon: [b, sub] after the call; sub is drained
RECURSIVE siphon_loop(_, _, _)
siphon_loop(b, sub, i) ==
    Bind2(LAMBDA bv, sv :
            IF i > Len(sv.defn_order) THEN [b |-> bv, sub |-> [sv EXCEPT !.defn_order = <<>>]]
            ELSE LET name == sv.defn_order[i]
                 IN IF name \notin DOMAIN sv.syn_rules
                    THEN [b |-> [bv EXCEPT !.status = "panic"], sub |-> sv]
                    ELSE siphon_loop(
                            [bv EXCEPT !.defn_order = Append(@, name),
                                       !.syn_rules = MapPut(@, name, sv.syn_rules[name])],
                            [sv EXCEPT !.syn_rules = MapRemove(@, name)],
                            i + 1),
          b, sub)

\* siphon that drains sub and passes none of its rules along
siphon_drop(b, sub) ==
    Bind2(LAMBDA bv, sv : [b |-> bv, sub |-> [sv EXCEPT !.defn_order = <<>>, !.syn_rules = EmptyMap]],
          b, sub)

siphon(b, sub) ==
    Bind2(LAMBDA bv, sv :
            IF sv.status # "ok" THEN [b |-> [bv EXCEPT !.status = sv.status], sub |-> sv]
            ELSE siphon_loop(bv, sv, 1),
          b, sub)

\* SeqBuilder::syn_rule
syn_rule(b, name, rb) ==
    Bind1(LAMBDA s :
            LET vec == IF name \in DOMAIN s.b.syn_rules THEN s.b.syn_rules[name] ELSE <<>>
            IN [s.b EXCEPT !.syn_rules = MapPut(@, name, Append(vec, s.sub)),
                           !.defn_order = IF Contains(@, name) THEN @ ELSE Append(@, name)],
          siphon(b, rb))

\* the builder with the new nonterminal pushed and the counter, as the composite
\* builders return them
Built(b, nid) == [b |-> b, nid |-> nid]

\* SeqBuilder::opt        f? => -f-option: | f.
opt(rulename, nid, b, sub) ==
    Bind1(LAMBDA s :
            LET f_option == mint_internal_id(rulename, nid, "f-option")
                b1 == syn_rule(s.b, f_option.name, SeqBuilder_new)
                b2 == syn_rule(b1, f_option.name, s.sub)
            IN Built(push_factor(b2, mark_nt(f_option.name, "Mute")), f_option.nid),
          siphon(b, sub))

\* SeqBuilder::repeat0    f* => -f-star: (f, f-star)?.
repeat0(rulename, nid, b, sub) ==
    Bind1(LAMBDA s :
            LET f_star == mint_internal_id(rulename, nid, "f-star")
            IN Bind1(LAMBDA inner :
                       Built(push_factor(syn_rule(s.b, f_star.name, inner.b),
                                         mark_nt(f_star.name, "Mute")), inner.nid),
                     opt(rulename, f_star.nid, SeqBuilder_new,
                         push_factor(expr(SeqBuilder_new, s.sub), nt(f_star.name)))),
          siphon(b, sub))

\* SeqBuilder::repeat1    f+ => -f-plus: f, f*.
repeat1(rulename, nid, b, sub) ==
    Bind1(LAMBDA s :
            LET f_plus == mint_internal_id(rulename, nid, "f-plus")
            IN Bind1(LAMBDA inner :
                       Built(push_factor(syn_rule(s.b, f_plus.name, inner.b),
                                         mark_nt(f_plus.name, "Mute")), inner.nid),
                     repeat0(rulename, f_plus.nid, expr(SeqBuilder_new, s.sub),
                             expr(SeqBuilder_new, s.sub))),
          siphon(b, sub))

\* SeqBuilder::repeat1_sep    f++sep => -f-plus-sep: f, (sep, f)*.
repeat1_sep(rulename, nid, b, sub1, sub2) ==
    Bind1(LAMBDA s1 : Bind1(LAMBDA s2 :
            LET f_plus_sep == mint_internal_id(rulename, nid, "f-plus-sep")
            IN Bind1(LAMBDA inner :
                       Built(push_factor(syn_rule(s2.b, f_plus_sep.name, inner.b),
                                         mark_nt(f_plus_sep.name, "Mute")), inner.nid),
                     repeat0(rulename, f_plus_sep.nid, expr(SeqBuilder_new, s1.sub),
                             expr(expr(SeqBuilder_new, s2.sub), s1.sub))),
          siphon(s1.b, sub2)), siphon(b, sub1))

\* SeqBuilder::repeat0_sep    f**sep => -f-star-sep: (f++sep)?.
repeat0_sep(rulename, nid, b, sub1, sub2) ==
    Bind1(LAMBDA s1 : Bind1(LAMBDA s2 :
            LET f_star_sep == mint_internal_id(rulename, nid, "f-star-sep")
            IN Bind1(LAMBDA plus : Bind1(LAMBDA inner :
                       Built(push_factor(syn_rule(s2.b, f_star_sep.name, inner.b),
                                         mark_nt(f_star_sep.name, "Mute")), inner.nid),
                     opt(rulename, plus.nid, SeqBuilder_new, plus.b)),
                     repeat1_sep(rulename, f_star_sep.nid, SeqBuilder_new, s1.sub, s2.sub)),
          siphon(s1.b, sub2)), siphon(b, sub1))

\* SeqBuilder::alts
RECURSIVE alts_loop(_, _, _, _)
alts_loop(b, f_opt, exprs, i) ==
    Bind1(LAMBDA bv :
            IF i > Len(exprs) THEN bv
            ELSE alts_loop(syn_rule(bv, f_opt, exprs[i]), f_opt, exprs, i + 1),
          b)

alts(rulename, nid, b, exprs) ==
    LET f_opt == mint_internal_id(rulename, nid, "f-opt")
    IN Built(push_factor(alts_loop(b, f_opt.name, exprs, 1), nt(f_opt.name)), f_opt.nid)

\* add_alt_branch where every call sets the mark of the definition
add_alt_branch_remark(g, mark, name, factors) ==
    Bind1(LAMBDA gv :
            IF name \in DOMAIN gv.definitions
            THEN [gv EXCEPT !.definitions[name] = BranchingRule(mark, Append(@.alts, factors))]
            ELSE Grammar(Append(gv.defn_order, name),
                         MapPut(gv.definitions, name, BranchingRule(mark, <<factors>>))),
          g)

\* add_alt_branch where every call pushes the name onto the definition order
add_alt_branch_push(g, mark, name, factors) ==
    Bind1(LAMBDA gv :
            IF name \in DOMAIN gv.definitions
            THEN [gv EXCEPT !.defn_order = Append(@, name),
                            !.definitions[name].alts = Append(@, factors)]
            ELSE Grammar(Append(gv.defn_order, name),
                         MapPut(gv.definitions, name, BranchingRule(mark, <<factors>>))),
          g)

\* add_alt_branch where a new name goes to the front of the definition order
add_alt_branch_front(g, mark, name, factors) ==
    Bind1(LAMBDA gv :
            IF name \in DOMAIN gv.definitions
            THEN [gv EXCEPT !.definitions[name].alts = Append(@, factors)]
            ELSE Grammar(<<name>> \o gv.defn_order,
                         MapPut(gv.definitions, name, BranchingRule(mark, <<factors>>))),
          g)

\* BranchingRule::add_alt_branch on the definition of name, which or_insert_with
\* makes with the given mark, at the end of the definition order, when there is none
add_alt_branch(g, mark, name, factors) ==
    Bind1(LAMBDA gv :
            IF name \in DOMAIN gv.definitions
            THEN [gv EXCEPT !.definitions[name].alts = Append(@, factors)]
            ELSE Grammar(Append(gv.defn_order, name),
                         MapPut(gv.definitions, name, BranchingRule(mark, <<factors>>))),
          g)

\* the synthesized rules defined with the Default mark
RECURSIVE add_builders_default(_, _, _, _)
add_builders_default(g, syn_name, builders, j) ==
    IF j > Len(builders) THEN g
    ELSE add_builders_default(add_alt_branch(g, "Default", syn_name, builders[j].factors),
                              syn_name, builders, j + 1)

\* Grammar::mark_define, 2) the synthesized rules
RECURSIVE add_builders(_, _, _, _)
add_builders(g, syn_name, builders, j) ==
    IF j > Len(builders) THEN g
    ELSE add_builders(add_alt_branch(g, "Mute", syn_name, builders[j].factors),
                      syn_name, builders, j + 1)

RECURSIVE add_syn_rules(_, _, _)
add_syn_rules(g, sb, i) ==
    IF i > Len(sb.defn_order) THEN g
    ELSE add_syn_rules(add_builders(g, sb.defn_order[i], sb.syn_rules[sb.defn_order[i]], 1),
                       sb, i + 1)

\* Grammar::mark_define
mark_define(g, mark, name, sb) ==
    Bind2(LAMBDA gv, sv : add_syn_rules(add_alt_branch(gv, mark, name, sv.factors), sv, 1),
          g, sb)

\* Grammar::define
define(g, name, sb) == mark_define(g, "Default", name, sb)

\* Display for Mark
Mark_to_string(mark) ==
    IF mark = "Unmute" THEN "^" ELSE IF mark = "Mute" THEN "-" ELSE IF mark = "Attr" THEN "@" ELSE ""

\* Display for Grammar: the pieces appended to the string builder, in order; the
\* text of an alternative (Display for Rule, the Debug text of its factors) is
\* kept as the factors themselves
RECURSIVE Display_Grammar_loop(_, _, _)
Display_Grammar_loop(g, i, text) ==
    IF i > Len(g.defn_order) THEN text
    ELSE LET name == g.defn_order[i]
             branching_rule == g.definitions[name]
         IN Display_Grammar_loop(g, i + 1,
                text \o <<Mark_to_string(branching_rule.mark), name, "= ",
                          branching_rule.alts, ".\n">>)

Display_Grammar(g) == Display_Grammar_loop(g, 1, <<>>)

\* Grammar::get_rule_count without its assertion
get_rule_count(g) == Cardinality(DOMAIN g.definitions)

\* doc = "a", "b".
GSeq ==
    Grammar(<<"doc">>,
        [n \in {"doc"} |-> BranchingRule("Default", << <<ch("a"), ch("b")>> >>)])

\* doc = A, "a" | A, "b".  A = | "c".     (nullable, first in two alternatives)
GNullFirst ==
    Grammar(<<"doc", "A">>,
        "doc" :> BranchingRule("Default", << <<nt("A"), ch("a")>>, <<nt("A"), ch("b")>> >>)
     @@ "A" :> BranchingRule("Default", << <<>>, <<ch("c")>> >>))

\* doc = A, A.  A = | "a".        (nullable, referenced twice at one position)
GNullable ==
    Grammar(<<"doc", "A">>,
        "doc" :> BranchingRule("Default", << <<nt("A"), nt("A")>> >>)
     @@ "A" :> BranchingRule("Default", << <<>>, <<ch("a")>> >>))

\* doc = S.  S = S, "+", M | M.  M = M, "*", T | T.  T = ["1234"].   (SmokeWiki)
GWiki ==
    Grammar(<<"doc", "S", "M", "T">>,
        "doc" :> BranchingRule("Default", << <<nt("S")>> >>)
     @@ "S" :> BranchingRule("Default", << <<nt("S"), ch("+"), nt("M")>>, <<nt("M")>> >>)
     @@ "M" :> BranchingRule("Default", << <<nt("M"), ch("*"), nt("T")>>, <<nt("T")>> >>)
     @@ "T" :> BranchingRule("Default", << <<ch_in(<<"1", "2", "3", "4">>)>> >>))

\* doc = -a, "y" | -a, "z".  a = "x".  -a = "x".
\* (the first alternative refers to the rule a with the mark Mute, the second to
\* the rule of the name -a)
GHyphen ==
    Grammar(<<"doc", "a", "-a">>,
        "doc" :> BranchingRule("Default", << <<mark_nt("a", "Mute"), ch("y")>>,
                                            <<nt("-a"), ch("z")>> >>)
     @@ "a" :> BranchingRule("Default", << <<ch("x")>> >>)
     @@ "-a" :> BranchingRule("Default", << <<ch("x")>> >>))

\* doc = "a", "b" | ["a"], "b".     (two rules that differ in a factor behind the dot)
GSameText ==
    Grammar(<<"doc">>,
        [n \in {"doc"} |-> BranchingRule("Default", << <<ch("a"), ch("b")>>,
                                                      <<ch_in(<<"a">>), ch("b")>> >>)])

\* doc = A.  A = A | "a".        (unit cycle on one name)
GSelf ==
    Grammar(<<"doc", "A">>,
        "doc" :> BranchingRule("Default", << <<nt("A")>> >>)
     @@ "A" :> BranchingRule("Default", << <<nt("A")>>, <<ch("a")>> >>))

\* doc = A.  A = B.  B = A | "a".        (unit cycle)
GCycle ==
    Grammar(<<"doc", "A", "B">>,
        "doc" :> BranchingRule("Default", << <<nt("A")>> >>)
     @@ "A" :> BranchingRule("Default", << <<nt("B")>> >>)
     @@ "B" :> BranchingRule("Default", << <<nt("A")>>, <<ch("a")>> >>))

\* doc = A.  A = "a", B | "a".  B = "b", A | "b".        (mutual recursion)
GMutual ==
    Grammar(<<"doc", "A", "B">>,
        "doc" :> BranchingRule("Default", << <<nt("A")>> >>)
     @@ "A" :> BranchingRule("Default", << <<ch("a"), nt("B")>>, <<ch("a")>> >>)
     @@ "B" :> BranchingRule("Default", << <<ch("b"), nt("A")>>, <<ch("b")>> >>))

\* doc = ~["a"].
GExclude ==
    Grammar(<<"doc">>,
        [n \in {"doc"} |-> BranchingRule("Default", << <<ch_not_in(<<"a">>)>> >>)])

\* doc = ~["a"]*.  as repeat0 lowers it:
\*   doc = ---doc.f-star1.  ---doc.f-star1 = ---doc.f-option2.
\*   ---doc.f-option2 = | ~["a"], --doc.f-star1.
GExcludeStar ==
    Grammar(<<"doc", "--doc.f-star1", "--doc.f-option2">>,
        "doc" :> BranchingRule("Default", << <<mark_nt("--doc.f-star1", "Mute")>> >>)
     @@ "--doc.f-star1" :> BranchingRule("Mute", << <<mark_nt("--doc.f-option2", "Mute")>> >>)
     @@ "--doc.f-option2" :> BranchingRule("Mute",
            << <<>>, <<ch_not_in(<<"a">>), nt("--doc.f-star1")>> >>))

\* doc = name, -":", value.  @name = ["a"-"z"] | ["a"-"z"], name.  value = "b".
GAttr ==
    Grammar(<<"doc", "name", "value">>,
        "doc" :> BranchingRule("Default", << <<nt("name"), mark_ch(":", "Mute"), nt("value")>> >>)
     @@ "name" :> BranchingRule("Attr",
            << <<ch_range("a", "z")>>, <<ch_range("a", "z"), nt("name")>> >>)
     @@ "value" :> BranchingRule("Default", << <<ch("b")>> >>))

\* doc = a, -":", -b.  -a = ["a"-"z"].  b = "b".        (after SmokeMute)
GMute ==
    Grammar(<<"doc", "a", "b">>,
        "doc" :> BranchingRule("Default", << <<nt("a"), mark_ch(":", "Mute"), mark_nt("b", "Mute")>> >>)
     @@ "a" :> BranchingRule("Mute", << <<ch_range("a", "z")>> >>)
     @@ "b" :> BranchingRule("Default", << <<ch("b")>> >>))

\* doc = x | y.  x = a, "b".  y = -a, "c".  a = @n.  n = "a".
\* (one nonterminal referenced with two marks at the same position)
GTwoMarks ==
    Grammar(<<"doc", "x", "y", "a", "n">>,
        "doc" :> BranchingRule("Default", << <<nt("x")>>, <<nt("y")>> >>)
     @@ "x" :> BranchingRule("Default", << <<nt("a"), ch("b")>> >>)
     @@ "y" :> BranchingRule("Default", << <<mark_nt("a", "Mute"), ch("c")>> >>)
     @@ "a" :> BranchingRule("Default", << <<mark_nt("n", "Attr")>> >>)
     @@ "n" :> BranchingRule("Default", << <<ch("a")>> >>))

\* every call-site mark on a definition of mark d:  doc = dd | ^dd | -dd | @dd.  <d>dd = "a".
Calls(name) ==
    << <<mark_nt(name, "Default")>>, <<mark_nt(name, "Unmute")>>,
       <<mark_nt(name, "Mute")>>, <<mark_nt(name, "Attr")>> >>
GMarks(d) ==
    Grammar(<<"doc", "dd">>,
        "doc" :> BranchingRule("Default", Calls("dd"))
     @@ "dd" :> BranchingRule(d, << <<ch("a")>> >>))

\* doc = @q, "b".  q = -"a", q | ['"'], q | .
GQuote ==
    Grammar(<<"doc", "q">>,
        "doc" :> BranchingRule("Default", << <<mark_nt("q", "Attr"), ch("b")>> >>)
     @@ "q" :> BranchingRule("Default",
            << <<mark_ch("a", "Mute"), nt("q")>>, <<ch("\""), nt("q")>>, <<>> >>))

\* Grammar::new: no definitions
GEmpty == Grammar(<<>>, [n \in {} |-> BranchingRule("Default", <<>>)])

\* doc = "a", zz | "b".        (zz has no definition)
GMissing ==
    Grammar(<<"doc">>,
        [n \in {"doc"} |-> BranchingRule("Default", << <<ch("a"), nt("zz")>>, <<ch("b")>> >>)])

\* A builder written as a method chain is the sequence of its calls on ctx.seq();
\* a call is [op, f, subs] with the factor a primitive pushes or the chains of the
\* builders a composite takes.
Push(f) == [op |-> "push", f |-> f, subs |-> <<>>]
Call(op, subs) == [op |-> op, f |-> NoLit, subs |-> subs]

\* the chain evaluated as Rust evaluates it: the receiver, then the arguments
\* from left to right, then the call
RECURSIVE EvalChain(_, _, _, _, _)
EvalArgs(c, rulename, nid) ==
    IF Len(c.subs) = 0 THEN <<Built(SeqBuilder_new, nid)>>
    ELSE Bind1(LAMBDA s1 :
                 IF Len(c.subs) = 1 THEN <<s1>>
                 ELSE <<s1, EvalChain(c.subs[2], rulename, s1.nid, SeqBuilder_new, 1)>>,
               EvalChain(c.subs[1], rulename, nid, SeqBuilder_new, 1))

EvalCall(c, rulename, nid, b, args) ==
    LET n == args[Len(args)].nid
    IN IF c.op = "push" THEN Built(push_factor(b, c.f), nid)
       ELSE IF c.op = "opt" THEN opt(rulename, n, b, args[1].b)
       ELSE IF c.op = "repeat0" THEN repeat0(rulename, n, b, args[1].b)
       ELSE IF c.op = "repeat1" THEN repeat1(rulename, n, b, args[1].b)
       ELSE IF c.op = "repeat1_sep" THEN repeat1_sep(rulename, n, b, args[1].b, args[2].b)
       ELSE IF c.op = "repeat0_sep" THEN repeat0_sep(rulename, n, b, args[1].b, args[2].b)
       ELSE alts(rulename, n, b, <<args[1].b, args[2].b>>)

EvalChain(chain, rulename, nid, b, i) ==
    IF i > Len(chain) THEN Built(b, nid)
    ELSE Bind2(LAMBDA bv, args :
                 Bind1(LAMBDA r : EvalChain(chain, rulename, r.nid, r.b, i + 1),
                       EvalCall(chain[i], rulename, nid, bv, args)),
               b, EvalArgs(chain[i], rulename, nid))

\* the builders of the terminals "a" and "+" and of a reference to x
ChA == <<Push(ch("a"))>>
ChPlus == <<Push(ch("+"))>>
NtX == <<Push(nt("x"))>>

\* doc = "a"?.  doc = "a"*.  doc = "a"+.  doc = "a"**"+".  doc = "a"++"+".
\* as SmokeOpt, SmokeStar, SmokePlus, SmokeStarSep and SmokePlusSep build them
\* (their separator is ' '; "+" stands for it here)
Composite(op, subs) ==
    define(Grammar_new, "doc",
           EvalChain(<<Call(op, subs)>>, "doc", FirstId, SeqBuilder_new, 1).b)

GOpt == Composite("opt", <<ChA>>)
GStar == Composite("repeat0", <<ChA>>)
GPlus == Composite("repeat1", <<ChA>>)
GStarSep == Composite("repeat0_sep", <<ChA, ChPlus>>)
GPlusSep == Composite("repeat1_sep", <<ChA, ChPlus>>)

\* doc = ("a" | "+").  built with alts
GAlts == Composite("alts", <<ChA, ChPlus>>)

\* one statement g.define or g.mark_define of a grammar written by hand; fresh says
\* that a new RuleContext of the name was made before it
Def(mark, name, fresh, chain) == [mark |-> mark, name |-> name, fresh |-> fresh, chain |-> chain]

\* the statements lo..hi applied in order to the grammar st.g, the counter of the
\* current RuleContext being st.nid
RECURSIVE BuildAll(_, _, _, _)
BuildAll(defs, lo, hi, st) ==
    IF lo > hi THEN st
    ELSE IF lo = hi
    THEN Bind2(LAMBDA sv, built : [g |-> mark_define(sv.g, defs[lo].mark, defs[lo].name, built.b),
                                   nid |-> built.nid],
               st, EvalChain(defs[lo].chain, defs[lo].name,
                             IF defs[lo].fresh THEN FirstId ELSE st.nid, SeqBuilder_new, 1))
    ELSE Bind1(LAMBDA mid : BuildAll(defs, ((lo + hi) \div 2) + 1, hi, mid),
               BuildAll(defs, lo, (lo + hi) \div 2, st))

\* ixml_bootstrap.rs: the statements of bootstrap_ixml_grammar, in order
IxmlDefs ==
    << Def("Default", "ixml", TRUE,
          <<Push(nt("s")), Call("repeat1_sep", << <<Push(nt("rule"))>>, <<Push(nt("RS"))>> >>), Push(nt("s"))>>),
       Def("Mute", "s", TRUE,
          <<Call("repeat0", << <<Push(nt("whitespace"))>> >>)>>),
       Def("Mute", "RS", TRUE,
          <<Call("repeat1", << <<Push(nt("whitespace"))>> >>)>>),
       Def("Mute", "whitespace", TRUE,
          <<Push(mark_ch_in(<<" ", "\t", "\n", "\r">>, "Mute"))>>),
       Def("Default", "rule", TRUE,
          <<Call("opt", << <<Push(nt("mark")), Push(nt("s"))>> >>), Push(nt("name")), Push(nt("s")), Push(mark_ch_in(<<"=", ":">>, "Mute")), Push(nt("s")), Push(mark_nt("alts", "Mute")), Push(mark_ch(".", "Mute"))>>),
       Def("Attr", "mark", TRUE,
          <<Push(ch_in(<<"@", "^", "-">>))>>),
       Def("Default", "alts", TRUE,
          <<Call("repeat1_sep", << <<Push(nt("alt"))>>, <<Push(mark_ch_in(<<";", "|">>, "Mute")), Push(nt("s"))>> >>)>>),
       Def("Default", "alt", TRUE,
          <<Call("repeat0_sep", << <<Push(nt("term"))>>, <<Push(mark_ch(",", "Mute")), Push(nt("s"))>> >>)>>),
       Def("Mute", "term", TRUE,
          <<Push(nt("factor"))>>),
       Def("Mute", "term", FALSE,
          <<Push(nt("option"))>>),
       Def("Mute", "term", FALSE,
          <<Push(nt("repeat0"))>>),
       Def("Mute", "term", FALSE,
          <<Push(nt("repeat1"))>>),
       Def("Mute", "factor", TRUE,
          <<Push(nt("terminal"))>>),
       Def("Mute", "factor", FALSE,
          <<Push(nt("nonterminal"))>>),
       Def("Mute", "factor", FALSE,
          <<Push(mark_ch("(", "Mute")), Push(nt("s")), Push(nt("alts")), Push(mark_ch(")", "Mute")), Push(nt("s"))>>),
       Def("Default", "repeat0", TRUE,
          <<Push(nt("factor")), Push(mark_ch("*", "Mute")), Push(nt("s"))>>),
       Def("Default", "repeat0", FALSE,
          <<Push(nt("factor")), Push(mark_ch("*", "Mute")), Push(mark_ch("*", "Mute")), Push(nt("s")), Push(nt("sep"))>>),
       Def("Default", "repeat1", TRUE,
          <<Push(nt("factor")), Push(mark_ch("+", "Mute")), Push(nt("s"))>>),
       Def("Default", "repeat1", FALSE,
          <<Push(nt("factor")), Push(mark_ch("+", "Mute")), Push(mark_ch("+", "Mute")), Push(nt("s")), Push(nt("sep"))>>),
       Def("Default", "option", TRUE,
          <<Push(nt("factor")), Push(mark_ch("?", "Mute")), Push(nt("s"))>>),
       Def("Default", "sep", TRUE,
          <<Push(nt("factor"))>>),
       Def("Default", "nonterminal", TRUE,
          <<Call("opt", << <<Push(nt("mark")), Push(nt("s"))>> >>), Push(nt("name")), Push(nt("s"))>>),
       Def("Attr", "name", TRUE,
          <<Push(nt("namestart")), Call("repeat0", << <<Push(nt("namefollower"))>> >>)>>),
       Def("Mute", "namestart", TRUE,
          <<Push(ch_in(<<"_", "a", "b", "c", "d", "e", "f", "g", "h", "i", "j", "k", "l", "m", "n", "o", "p", "q", "r", "s", "t", "u", "v", "w", "x", "y", "z", "A", "B", "C", "D", "E", "F", "G", "H", "I", "J", "K", "L", "M", "N", "O", "P", "Q", "R", "S", "T", "U", "V", "W", "X", "Y", "Z">>))>>),
       Def("Mute", "namefollower", TRUE,
          <<Push(nt("namestart"))>>),
       Def("Mute", "namefollower", FALSE,
          <<Push(ch_in(<<"-", "0", "1", "2", "3", "4", "5", "6", "7", "8", "9">>))>>),
       Def("Mute", "terminal", TRUE,
          <<Push(nt("literal"))>>),
       Def("Mute", "terminal", FALSE,
          <<Push(nt("charset"))>>),
       Def("Default", "literal", TRUE,
          <<Push(nt("quoted"))>>),
       Def("Default", "literal", FALSE,
          <<Push(nt("encoded"))>>),
       Def("Mute", "quoted", TRUE,
          <<Call("opt", << <<Push(nt("mark")), Push(nt("s"))>> >>), Push(nt("string")), Push(nt("s"))>>),
       Def("Attr", "tmark", TRUE,
          <<Push(ch_in(<<"^", "-">>))>>),
       Def("Attr", "string", TRUE,
          <<Push(mark_ch("\"", "Mute")), Call("repeat1", << <<Push(nt("dchar"))>> >>), Push(mark_ch("\"", "Mute"))>>),
       Def("Attr", "string", FALSE,
          <<Push(mark_ch("'", "Mute")), Call("repeat1", << <<Push(nt("schar"))>> >>), Push(mark_ch("'", "Mute"))>>),
       Def("Default", "dchar", TRUE,
          <<Push(Terminal("Default", Lit(<<Exact("\""), Exact("\n"), Exact("\r")>>, TRUE)))>>),
       Def("Default", "dchar", FALSE,
          <<Push(ch("\"")), Push(mark_ch("\"", "Mute"))>>),
       Def("Default", "schar", TRUE,
          <<Push(Terminal("Default", Lit(<<Exact("'"), Exact("\n"), Exact("\r")>>, TRUE)))>>),
       Def("Default", "schar", FALSE,
          <<Push(ch("'")), Push(mark_ch("'", "Mute"))>>),
       Def("Mute", "encoded", TRUE,
          <<Call("opt", << <<Push(nt("tmark")), Push(nt("s"))>> >>), Push(mark_ch("#", "Mute")), Push(nt("hex")), Push(nt("s"))>>),
       Def("Attr", "hex", TRUE,
          <<Call("repeat1", << <<Push(Terminal("Default", Lit(<<Range("0", "9"), Range("a", "f"), Range("A", "F")>>, FALSE)))>> >>)>>),
       Def("Mute", "charset", TRUE,
          <<Push(nt("inclusion"))>>),
       Def("Mute", "charset", FALSE,
          <<Push(nt("exclusion"))>>),
       Def("Default", "inclusion", TRUE,
          <<Call("opt", << <<Push(nt("tmark")), Push(nt("s"))>> >>), Push(nt("set"))>>),
       Def("Default", "exclusion", TRUE,
          <<Call("opt", << <<Push(nt("tmark")), Push(nt("s"))>> >>), Push(mark_ch("~", "Mute")), Push(nt("s")), Push(nt("set"))>>),
       Def("Mute", "set", TRUE,
          <<Push(mark_ch("[", "Mute")), Push(nt("s")), Call("repeat0_sep", << <<Push(nt("member")), Push(nt("s"))>>, <<Push(mark_ch_in(<<";", "|">>, "Mute")), Push(nt("s"))>> >>), Push(mark_ch("]", "Mute")), Push(nt("s"))>>),
       Def("Default", "member", TRUE,
          <<Push(nt("string"))>>),
       Def("Default", "member", FALSE,
          <<Push(mark_ch("#", "Mute")), Push(nt("hex"))>>),
       Def("Default", "member", FALSE,
          <<Push(nt("range"))>>),
       Def("Default", "member", FALSE,
          <<Push(nt("class"))>>),
       Def("Mute", "range", TRUE,
          <<Push(nt("from")), Push(nt("s")), Push(mark_ch("-", "Mute")), Push(nt("s")), Push(nt("to"))>>),
       Def("Attr", "from", TRUE,
          <<Push(nt("character"))>>),
       Def("Attr", "to", TRUE,
          <<Push(nt("character"))>>),
       Def("Mute", "character", TRUE,
          <<Push(mark_ch("\"", "Mute")), Push(nt("dchar")), Push(mark_ch("\"", "Mute"))>>),
       Def("Mute", "character", FALSE,
          <<Push(mark_ch("'", "Mute")), Push(nt("schar")), Push(mark_ch("'", "Mute"))>>),
       Def("Mute", "character", FALSE,
          <<Push(ch("#")), Push(nt("hex"))>>),
       Def("Mute", "class", TRUE,
          <<Push(nt("code"))>>),
       Def("Attr", "code", TRUE,
          <<Push(nt("capital")), Call("opt", << <<Push(nt("letter"))>> >>)>>),
       Def("Mute", "capital", TRUE,
          <<Push(ch_range("A", "Z"))>>),
       Def("Mute", "letter", TRUE,
          <<Push(ch_range("a", "z"))>>) >>

\* the bootstrap grammar of iXML, the grammar from_ixml_str parses with
GIxml == BuildAll(IxmlDefs, 1, Len(IxmlDefs), [g |-> Grammar_new, nid |-> FirstId]).g

\* the grammars with the alphabets of their inputs
TestSets ==
    << [g |-> GSeq,         alphabet |-> {"a", "b"}],
       [g |-> GNullable,    alphabet |-> {"a"}],
       [g |-> GWiki,        alphabet |-> {"1", "+", "*"}],
       [g |-> GCycle,       alphabet |-> {"a"}],
       [g |-> GMutual,      alphabet |-> {"a", "b"}],
       [g |-> GExclude,     alphabet |-> {"a", "b"}],
       [g |-> GExcludeStar, alphabet |-> {"a", "b"}],
       [g |-> GAttr,        alphabet |-> {"a", ":", "b"}],
       [g |-> GMute,        alphabet |-> {"a", ":", "b"}],
       [g |-> GTwoMarks,    alphabet |-> {"a", "b", "c"}],
       [g |-> GMarks("Default"), alphabet |-> {"a"}],
       [g |-> GMarks("Unmute"),  alphabet |-> {"a"}],
       [g |-> GMarks("Mute"),    alphabet |-> {"a"}],
       [g |-> GMarks("Attr"),    alphabet |-> {"a"}],
       [g |-> GQuote,       alphabet |-> {"\"", "a", "b"}],
       [g |-> GEmpty,       alphabet |-> {"a"}],
       [g |-> GMissing,     alphabet |-> {"a", "b"}],
       [g |-> GOpt,         alphabet |-> {"a", "+"}],
       [g |-> GStar,        alphabet |-> {"a", "+"}],
       [g |-> GPlus,        alphabet |-> {"a", "+"}],
       [g |-> GStarSep,     alphabet |-> {"a", "+"}],
       [g |-> GPlusSep,     alphabet |-> {"a", "+"}],
       [g |-> GAlts,        alphabet |-> {"a", "+"}],
       [g |-> GNullFirst,   alphabet |-> {"a", "b", "c"}],
       [g |-> GSelf,        alphabet |-> {"a"}],
       [g |-> GHyphen,      alphabet |-> {"x", "y", "z"}],
       [g |-> GSameText,    alphabet |-> {"a", "b"}] >>

\* str::chars of the names the serialized grammars use
str_chars(s) == IF s = "doc" THEN <<"d", "o", "c">> ELSE <<s>>

\* the concatenation of a sequence of character sequences, sep between them
RECURSIVE JoinChars(_, _)
JoinChars(seqs, sep) ==
    IF Len(seqs) = 0 THEN <<>>
    ELSE IF Len(seqs) = 1 THEN seqs[1]
    ELSE LET half == Len(seqs) \div 2
         IN JoinChars(SubSeq(seqs, 1, half), sep) \o sep
                \o JoinChars(SubSeq(seqs, half + 1, Len(seqs)), sep)

\* {:?} of a CharMatcher, a Lit and a Factor, as derive(Debug) writes them
Debug_CharMatcher(m) ==
    CASE m.k = "Exact" -> <<"E", "x", "a", "c", "t", "(", "'">> \o <<m.bot>> \o <<"'", ")">>
      [] m.k = "OneOf" -> <<"O", "n", "e", "O", "f", "(", "\"">> \o m.lst \o <<"\"", ")">>
      [] m.k = "Range" -> <<"R", "a", "n", "g", "e", "(", "'">> \o <<m.bot>> \o <<"'", ",", " ", "'">> \o <<m.top>> \o <<"'", ")">>

Debug_Lit(lit) ==
    <<"L", "i", "t", " ", "{", " ", "m", "a", "t", "c", "h", "e", "r", "s", ":", " ", "[">>
    \o JoinChars([i \in 1..Len(lit.matchers) |-> Debug_CharMatcher(lit.matchers[i])], <<",", " ">>)
    \o <<"]", ",", " ", "i", "s", "_", "e", "x", "c", "l", "u", "d", "e", ":", " ">> \o (IF lit.is_exclude THEN <<"t", "r", "u", "e">> ELSE <<"f", "a", "l", "s", "e">>) \o <<" ", "}">>

Debug_Mark(m) ==
    CASE m = "Default" -> <<"D", "e", "f", "a", "u", "l", "t">>
      [] m = "Unmute" -> <<"U", "n", "m", "u", "t", "e">>
      [] m = "Mute" -> <<"M", "u", "t", "e">>
      [] m = "Attr" -> <<"A", "t", "t", "r">>

Debug_Factor(f) ==
    IF f.t = "Terminal"
    THEN <<"T", "e", "r", "m", "i", "n", "a", "l", "(">> \o Debug_Mark(f.mark) \o <<",", " ">> \o Debug_Lit(f.lit) \o <<")">>
    ELSE <<"N", "o", "n", "t", "e", "r", "m", "(">> \o Debug_Mark(f.mark) \o <<",", " ", "\"">> \o str_chars(f.name) \o <<"\"", ")">>

\* Display for Rule: the factors in {:?}, joined by ", "
Display_Rule(r) == JoinChars([i \in 1..Len(r) |-> Debug_Factor(r[i])], <<",", " ">>)

\* Display for Grammar, character by character: the text from_ixml_str is given
\* when a serialized grammar is read back
Display_Grammar_chars(g) ==
    JoinChars([i \in 1..Len(g.defn_order) |->
                  LET branching_rule == g.definitions[g.defn_order[i]]
                  IN (IF branching_rule.mark = "Default" THEN <<>>
                      ELSE <<Mark_to_string(branching_rule.mark)>>)
                     \o str_chars(g.defn_order[i]) \o <<"=", " ">>
                     \o JoinChars([j \in 1..Len(branching_rule.alts) |->
                                      Display_Rule(branching_rule.alts[j])], <<" ", "|", " ">>)
                     \o <<".", "\n">>],
              <<>>)

\* char::is_whitespace on the characters of the texts
is_whitespace(c) == c \in {" ", "\t", "\n", "\r"}

\* str::trim
RECURSIVE trim_start(_)
RECURSIVE trim_end(_)
trim_start(t) == IF t # <<>> /\ is_whitespace(Head(t)) THEN trim_start(Tail(t)) ELSE t
trim_end(t) ==
    IF t # <<>> /\ is_whitespace(t[Len(t)]) THEN trim_end(SubSeq(t, 1, Len(t) - 1)) ELSE t
trim(t) == trim_end(trim_start(t))

\* builtin_grammars.rs: the test sets, each the iXML source and the grammar built
\* by hand
SmokeSeq ==
    [ixml |-> <<"d", "o", "c", " ", "=", " ", "\"", "a", "\"", ",", " ", "\"", "b", "\"", ".", "\n">>,
     grammar |-> BuildAll(<< Def("Default", "doc", TRUE, <<Push(ch("a")), Push(ch("b"))>>) >>,
                          1, 1, [g |-> Grammar_new, nid |-> FirstId]).g]

SmokeAlt ==
    [ixml |-> <<"d", "o", "c", " ", "=", " ", "\"", "a", "\"", " ", "|", " ", "\"", "b", "\"", ".", "\n">>,
     grammar |-> BuildAll(<< Def("Default", "doc", TRUE, <<Push(ch("a"))>>),
                             Def("Default", "doc", FALSE, <<Push(ch("b"))>>) >>,
                          1, 2, [g |-> Grammar_new, nid |-> FirstId]).g]

SmokeStarSep ==
    [ixml |-> <<"d", "o", "c", " ", "=", " ", "\"", "a", "\"", "*", "*", "\"", " ", "\"", ".", "\n">>,
     grammar |-> BuildAll(<< Def("Default", "doc", TRUE,
                                 <<Call("repeat0_sep", << <<Push(ch("a"))>>, <<Push(ch(" "))>> >>)>>) >>,
                          1, 1, [g |-> Grammar_new, nid |-> FirstId]).g]

SmokeMute ==
    [ixml |-> <<"d", "o", "c", " ", "=", " ", "a", ",", " ", "-", "\"", ":", "\"", ",", " ", "-", "b", ",", " ", "c", ".", "\n", "-", "a", " ", "=", " ", "[", "\"", "a", "\"", "-", "\"", "z", "\"", "]", "+", ".", "\n", "b", " ", "=", " ", "[", "\"", "a", "\"", "-", "\"", "m", "\"", "]", "+", ".", "\n", "c", " ", "=", " ", "[", "\"", "n", "\"", "-", "\"", "z", "\"", "]", "+", ".", "\n">>,
     grammar |-> BuildAll(<< Def("Default", "doc", TRUE,
                                 <<Push(nt("a")), Push(mark_ch(":", "Mute")),
                                   Push(mark_nt("b", "Mute")), Push(nt("c"))>>),
                             Def("Mute", "a", TRUE,
                                 <<Call("repeat1", << <<Push(ch_range("a", "z"))>> >>)>>),
                             Def("Default", "b", TRUE,
                                 <<Call("repeat1", << <<Push(ch_range("a", "m"))>> >>)>>),
                             Def("Default", "c", TRUE,
                                 <<Call("repeat1", << <<Push(ch_range("n", "z"))>> >>)>>) >>,
                          1, 4, [g |-> Grammar_new, nid |-> FirstId]).g]

BuiltinTests == <<SmokeSeq, SmokeAlt, SmokeStarSep, SmokeMute>>

\* a grammar built by hand whose one rule has one empty alternative
GEmptyAlt ==
    BuildAll(<< Def("Default", "doc", TRUE, <<>>) >>, 1, 1,
             [g |-> Grammar_new, nid |-> FirstId]).g

\* the grammars built by hand whose serialized text is read back
HandBuilt == {SmokeSeq.grammar, SmokeAlt.grammar, GEmptyAlt}

\* texts that are no sentence of iXML: a rule without its full stop, a sentence
\* followed by "!", a string left open, and the empty text
Malformed ==
    {<<"d", "o", "c", " ", "=", " ", "\"", "a", "\"">>, <<"d", "o", "c", " ", "=", " ", "\"", "a", "\"", ".", "!">>, <<"d", "o", "c", " ", "=", " ", "\"", "a">>, <<>>}

\* the texts from_ixml_str is called with
IxmlTexts ==
    {BuiltinTests[i].ixml : i \in 1..Len(BuiltinTests)}
        \cup {Display_Grammar_chars(g) : g \in HandBuilt}
        \cup Malformed

\* all strings over an alphabet up to MaxLen characters
Inputs(alphabet) == UNION {[1..n -> alphabet] : n \in 0..MaxLen}

\* the longer inputs of the test sets: "1+2*3" of SmokeWiki; the bootstrap grammar
\* parses what from_ixml_str hands it, ixml.trim()
LongInputs(g) ==
    IF g = GWiki THEN {<<"1", "+", "2", "*", "3">>}
    ELSE IF get_root_definition_name(g) = "ixml" THEN {trim(t) : t \in IxmlTexts}
    ELSE {}

-----------------------------------------------------------------------------
(* parser.rs: DotNotation, MatchRec, Task *)

\* stands for DOTSEP, the bullet of the dot notation
DOTSEP == "."

\* MatchRec::Term(char, usize, TMark) and MatchRec::NonTerm(SmolStr, usize, Mark)
Term(c, pos, tmark) == [t |-> "Term", sym |-> c, pos |-> pos, mark |-> tmark]
NonTerm(name, pos, mark) == [t |-> "NonTerm", sym |-> name, pos |-> pos, mark |-> mark]

\* DotNotation::new
DotNotation_new(rule) == [iteratee |-> rule, matched_so_far |-> <<>>]

\* DotNotation::advance_dot
advance_dot(dot, rec) == [dot EXCEPT !.matched_so_far = Append(@, rec)]

\* DotNotation::is_completed
is_completed(dot) == Len(dot.iteratee) = Len(dot.matched_so_far)

\* DotNotation::next_unparsed
next_unparsed(dot) == dot.iteratee[Len(dot.matched_so_far) + 1]

\* Display for DotNotation: the match records, the separator, the factors left
DotStr(dot) ==
    LET cursor == Len(dot.matched_so_far)
        done == JoinStr([i \in 1..cursor |->
                    LET r == dot.matched_so_far[i]
                    IN IF r.t = "Term"
                       THEN MarkStr(r.mark) \o "'" \o r.sym \o "'@" \o ToString(r.pos)
                       ELSE MarkStr(r.mark) \o r.sym \o "@" \o ToString(r.pos)], ", ")
        remain == JoinStr([i \in 1..(Len(dot.iteratee) - cursor) |->
                    FactorStr(dot.iteratee[cursor + i])], ", ")
    IN done \o " " \o DOTSEP \o " " \o remain

\* Display for Task, the only key of the dedup set
TaskStr(task) ==
    "( " \o MarkStr(task.mark) \o task.name \o " " \o ToString(task.origin) \o ":"
         \o ToString(task.pos) \o " " \o DotStr(task.dot) \o ") "

\* Option<TraceId>::None
None == -1

-----------------------------------------------------------------------------
(* parser.rs: TraceArena.  Operators take and return the TraceArena value. *)

\* TraceArena::new
TraceArena_new == [arena |-> <<>>, queue |-> <<>>, continuations |-> <<>>, hashes |-> {}]

\* TraceArena::get
get(tr, id) == tr.arena[id + 1]

\* save_task that puts the task first
save_task_first(tr, task) == [tr EXCEPT !.arena = <<task>> \o @]

\* TraceArena::save_task
save_task(tr, task) == [tr EXCEPT !.arena = Append(@, task)]

\* TraceArena::save_continuation (the multimap keeps insertion order per key)
save_continuation(tr, target_nt, tid) ==
    [tr EXCEPT !.continuations = Append(@, [nt |-> target_nt, tid |-> tid])]

\* get_continuations_for that gives the first continuation of the name only
get_continuations_for_first(tr, target_nt) ==
    LET hits == SelectSeq(tr.continuations, LAMBDA c : c.nt = target_nt)
    IN [i \in 1..(IF Len(hits) = 0 THEN 0 ELSE 1) |-> hits[i].tid]

\* TraceArena::get_continuations_for
get_continuations_for(tr, target_nt) ==
    LET hits == SelectSeq(tr.continuations, LAMBDA c : c.nt = target_nt)
    IN [i \in 1..Len(hits) |-> hits[i].tid]

\* TraceArena::have_we_seen: the test
have_we_seen(tr, task) == TaskStr(task) \in tr.hashes

\* TraceArena::have_we_seen: the bookkeeping of the not-seen branch
cache_task(tr, task) == [tr EXCEPT !.hashes = @ \cup {TaskStr(task)}]

\* the common tail of task, task_downstream and task_advance_cursor:
\* returns the arena and Some(id), or None for a task seen before
store(tr, task) ==
    IF have_we_seen(tr, task)
    THEN [tr |-> tr, id |-> None]
    ELSE [tr |-> save_task(cache_task(tr, task), task), id |-> task.id]

\* TraceArena::task
task(tr, name, mark, origin, pos, dot) ==
    store(tr, [id |-> Len(tr.arena), name |-> name, mark |-> mark,
               origin |-> origin, pos |-> pos, dot |-> dot])

\* TraceArena::task_downstream
task_downstream(tr, name, mark, origin, pos, dot) ==
    store(tr, [id |-> Len(tr.arena), name |-> name, mark |-> mark,
               origin |-> origin, pos |-> pos, dot |-> dot])

\* task_advance_cursor that leaves pos where it was
task_advance_cursor_stay(tr, from, rec) ==
    LET from_task == get(tr, from)
    IN store(tr, [id |-> Len(tr.arena), name |-> from_task.name, mark |-> from_task.mark,
                  origin |-> from_task.origin, pos |-> from_task.pos,
                  dot |-> advance_dot(from_task.dot, rec)])

\* TraceArena::task_advance_cursor
task_advance_cursor(tr, from, rec) ==
    LET from_task == get(tr, from)
    IN store(tr, [id |-> Len(tr.arena), name |-> from_task.name, mark |-> from_task.mark,
                  origin |-> from_task.origin, pos |-> rec.pos,
                  dot |-> advance_dot(from_task.dot, rec)])

\* Parser::queue_front, on the pair (arena, Option<TraceId>) a task constructor returns
queue_front(maybe_id) ==
    IF maybe_id.id = None THEN maybe_id.tr
    ELSE [maybe_id.tr EXCEPT !.queue = <<maybe_id.id>> \o @]

\* queue_back that puts the id in front
queue_back_ahead(maybe_id) ==
    IF maybe_id.id = None THEN maybe_id.tr
    ELSE [maybe_id.tr EXCEPT !.queue = <<maybe_id.id>> \o @]

\* Parser::queue_back
queue_back(maybe_id) ==
    IF maybe_id.id = None THEN maybe_id.tr
    ELSE [maybe_id.tr EXCEPT !.queue = Append(@, maybe_id.id)]

\* InputIter::at_eof
at_eof(tokens, pos) == pos >= Len(tokens)

\* InputIter::get_at
get_at(tokens, pos) == IF at_eof(tokens, pos) THEN EOFCHAR ELSE tokens[pos + 1]

-----------------------------------------------------------------------------
(* parser.rs: Parser::parse, the recognizer *)

\* the same resolution without the arm that lets ^ undo a Mute definition
effective_mark_mute_wins(defn_mark, mark) ==
    IF defn_mark = "Default" /\ mark = "Default" THEN "Default"
    ELSE IF defn_mark = "Attr" \/ mark = "Attr" THEN "Attr"
    ELSE IF defn_mark = "Mute" \/ mark = "Mute" THEN "Mute"
    ELSE "Unmute"

\* the effective mark the predictor computes from (defn_mark, mark), arm by arm
effective_mark(defn_mark, mark) ==
    IF defn_mark = "Default" /\ mark = "Default" THEN "Default"
    ELSE IF defn_mark = "Mute" /\ mark = "Unmute" THEN "Unmute"
    ELSE IF defn_mark = "Attr" \/ mark = "Attr" THEN "Attr"
    ELSE IF defn_mark = "Mute" \/ mark = "Mute" THEN "Mute"
    ELSE "Unmute"

\* the seed loop: one task per alternative of the root definition, each queued in front
RECURSIVE seed_loop(_, _, _)
seed_loop(tr, g, i) ==
    LET top_rule == get_root_definition(g)
    IN IF i > Len(top_rule.alts) THEN tr
       ELSE LET maybe_id == task(tr, get_root_definition_name(g), top_rule.mark,
                                 0, 0, DotNotation_new(top_rule.alts[i]))
            IN IF maybe_id.id = None
               THEN seed_loop(maybe_id.tr, g, i + 1)
               ELSE seed_loop(queue_front(maybe_id), g, i + 1)

\* the completer loop without the test of the continuation's position
RECURSIVE completer_loop_anywhere(_, _, _, _)
completer_loop_anywhere(tr, tid, continuations_here, i) ==
    IF i > Len(continuations_here) THEN tr
    ELSE LET continue_id == continuations_here[i]
             now_finished_via_child == next_unparsed(get(tr, continue_id).dot)
             match_rec ==
                 IF now_finished_via_child.t = "Nonterm"
                 THEN NonTerm(now_finished_via_child.name, get(tr, tid).pos,
                              now_finished_via_child.mark)
                 ELSE Term("?", get(tr, tid).pos, now_finished_via_child.mark)
             maybe_id == task_advance_cursor(tr, continue_id, match_rec)
         IN IF maybe_id.id = None
            THEN completer_loop_anywhere(maybe_id.tr, tid, continuations_here, i + 1)
            ELSE completer_loop_anywhere(queue_back(maybe_id), tid, continuations_here, i + 1)

\* the completer loop over the continuations registered under the name of task tid.
\* The turns whose continuation fails the test of its position change nothing and
\* are passed over in one step: here is the place of the next continuation from i
\* on that passes the test
RECURSIVE completer_loop(_, _, _, _)
completer_loop(tr, tid, continuations_here, i) ==
    LET passing == {j \in i..Len(continuations_here) :
                       get(tr, continuations_here[j]).pos = get(tr, tid).origin}
        here == CHOOSE j \in passing : \A m \in passing : j <= m
        continue_id == continuations_here[here]
        now_finished_via_child == next_unparsed(get(tr, continue_id).dot)
        match_rec ==
            IF now_finished_via_child.t = "Nonterm"
            THEN NonTerm(now_finished_via_child.name, get(tr, tid).pos,
                         now_finished_via_child.mark)
            ELSE Term("?", get(tr, tid).pos, now_finished_via_child.mark)
        maybe_id == task_advance_cursor(tr, continue_id, match_rec)
    IN IF passing = {} THEN tr
       ELSE IF maybe_id.id = None
       THEN completer_loop(maybe_id.tr, tid, continuations_here, here + 1)
       ELSE completer_loop(queue_back(maybe_id), tid, continuations_here, here + 1)

\* the predictor loop over the alternatives of the definition of name
RECURSIVE predictor_loop(_, _, _, _, _, _)
predictor_loop(tr, g, name, mark, new_pos, i) ==
    LET rules == get_definition(g, name).alts
    IN IF i > Len(rules) THEN tr
       ELSE LET maybe_id == task_downstream(tr, name, mark, new_pos, new_pos,
                                            DotNotation_new(rules[i]))
            IN IF maybe_id.id = None
               THEN predictor_loop(maybe_id.tr, g, name, mark, new_pos, i + 1)
               ELSE predictor_loop(queue_front(maybe_id), g, name, mark, new_pos, i + 1)

\* the record of the loop step just taken
Step(kind, tid, call_mark, defn_mark, eff_mark) ==
    [kind |-> kind, tid |-> tid, call_mark |-> call_mark, defn_mark |-> defn_mark,
     effective_mark |-> eff_mark, arena_len |-> Len(traces.arena)]

\* the bootstrap grammar is no test set: its inputs are the iXML texts
AlphabetOf(g) ==
    Bind1(LAMBDA sets :
            IF \E i \in 1..Len(sets) : sets[i].g = g
            THEN sets[CHOOSE i \in 1..Len(sets) : sets[i].g = g].alphabet
            ELSE {},
          TestSets)

\* no loop step taken yet
NoStep ==
    [kind |-> "new", tid |-> None, call_mark |-> "Default", defn_mark |-> "Default",
     effective_mark |-> "Default", arena_len |-> 0]

\* the names rules are defined under while a grammar is built, and their
\* RuleContexts before any name is minted
BuildNames == {"doc", "x"}
NoContexts == [n \in BuildNames |-> FirstId]

\* Parser::new on one of the grammars
Init ==
    /\ grammar \in {TestSets[i].g : i \in 1..Len(TestSets)}
    /\ input = <<>>
    /\ traces = TraceArena_new
    /\ completed_trace = <<>>
    /\ farthest_pos = 0
    /\ pc = "new"
    /\ result = [kind |-> "none", arena |-> <<>>, visits |-> <<>>]
    /\ last = NoStep
    /\ contexts = NoContexts
    /\ calls = <<>>
    /\ earlier = <<>>

\* parse(input) up to the loop: the input is read and the root alternatives seeded
Seed ==
    /\ pc = "new"
    /\ get_root_definition(grammar) # NoRule
    /\ \E inp \in Inputs(AlphabetOf(grammar)) \cup LongInputs(grammar) : input' = inp
    /\ traces' = seed_loop(traces, grammar, 1)
    /\ pc' = "loop"
    /\ last' = Step("seed", None, "Default", "Default", "Default")
    /\ UNCHANGED <<earlier, contexts, calls, grammar, completed_trace, farthest_pos, result>>

\* parse(input) on a grammar without a root rule: the error "No top grammar rule"
\* is returned from the seed
SeedNoRule ==
    /\ pc = "new"
    /\ get_root_definition(grammar) = NoRule
    /\ \E inp \in Inputs(AlphabetOf(grammar)) \cup LongInputs(grammar) : input' = inp
    /\ result' = [kind |-> StaticErr, arena |-> <<>>, visits |-> <<>>]
    /\ pc' = "done"
    /\ last' = Step("norule", None, "Default", "Default", "Default")
    /\ UNCHANGED <<earlier, contexts, calls, grammar, traces, completed_trace, farthest_pos>>

\* the head of every loop iteration: pop_front and the farthest_pos hint
Popped == [traces EXCEPT !.queue = Tail(@)]
HeadTask == get(traces, Head(traces.queue))
Advance == farthest_pos' = IF HeadTask.pos > farthest_pos THEN HeadTask.pos ELSE farthest_pos

\* loop iteration on a completed task: COMPLETER
Completer ==
    /\ pc = "loop" /\ traces.queue # <<>>
    /\ is_completed(HeadTask.dot)
    /\ Advance
    /\ completed_trace' = Append(completed_trace, Head(traces.queue))
    /\ traces' = completer_loop(Popped, Head(traces.queue),
                                get_continuations_for(Popped, HeadTask.name), 1)
    /\ last' = Step("completer", Head(traces.queue), "Default", "Default", "Default")
    /\ UNCHANGED <<earlier, contexts, calls, grammar, input, pc, result>>

\* loop iteration on a task whose next factor is a nonterminal: PREDICTOR
Predictor ==
    /\ pc = "loop" /\ traces.queue # <<>>
    /\ ~is_completed(HeadTask.dot)
    /\ next_unparsed(HeadTask.dot).t = "Nonterm"
    /\ contains_key(grammar, next_unparsed(HeadTask.dot).name)
    /\ Advance
    /\ LET tid == Head(traces.queue)
           factor == next_unparsed(HeadTask.dot)
           defn_mark == get_definition_mark(grammar, factor.name)
           eff == effective_mark(defn_mark, factor.mark)
       IN /\ traces' = predictor_loop(save_continuation(Popped, factor.name, tid),
                                      grammar, factor.name, eff, HeadTask.pos, 1)
          /\ last' = Step("predictor", tid, factor.mark, defn_mark, eff)
    /\ UNCHANGED <<earlier, contexts, calls, grammar, input, completed_trace, pc, result>>

\* what the predictor does with the Err the grammar returns for a name without a
\* definition.  The predictor uses the returned values as a Mark and a rule and has
\* no branch for Err: either nothing is predicted (the alternatives of an Err are
\* none) and the loop goes on, or the run ends there without a return value.
MissingOutcomes == {"skip", "abort"}

\* loop iteration on a task whose next factor is a nonterminal without a definition
PredictorMissing ==
    /\ pc = "loop" /\ traces.queue # <<>>
    /\ ~is_completed(HeadTask.dot)
    /\ next_unparsed(HeadTask.dot).t = "Nonterm"
    /\ ~contains_key(grammar, next_unparsed(HeadTask.dot).name)
    /\ Advance
    /\ LET tid == Head(traces.queue)
           factor == next_unparsed(HeadTask.dot)
           saved == save_continuation(Popped, factor.name, tid)
       IN \E outcome \in MissingOutcomes :
             /\ traces' = predictor_loop(saved, grammar, factor.name, factor.mark,
                                         HeadTask.pos, 1)
             /\ pc' = IF outcome = "skip" THEN "loop" ELSE "done"
             /\ result' = IF outcome = "skip" THEN result
                          ELSE [kind |-> "panic", arena |-> <<>>, visits |-> <<>>]
             /\ last' = Step("missing", tid, factor.mark, StaticErr, StaticErr)
    /\ UNCHANGED <<earlier, contexts, calls, grammar, input, completed_trace>>

\* the scanner's test: the class of the next factor accepts the character at pos
ScanAccepts ==
    Lit_accept(next_unparsed(HeadTask.dot).lit, get_at(input, HeadTask.pos))

\* loop iteration on a task whose next factor is a terminal that matches: SCANNER
Scanner ==
    /\ pc = "loop" /\ traces.queue # <<>>
    /\ ~is_completed(HeadTask.dot)
    /\ next_unparsed(HeadTask.dot).t = "Terminal"
    /\ ScanAccepts
    /\ HeadTask.pos + 1 <= Len(input) + Overrun
    /\ Advance
    /\ LET tid == Head(traces.queue)
           factor == next_unparsed(HeadTask.dot)
           rec == Term(get_at(input, HeadTask.pos), HeadTask.pos + 1, factor.mark)
       IN /\ traces' = queue_back(task_advance_cursor(Popped, tid, rec))
          /\ last' = Step("scanner", tid, factor.mark, "Default", "Default")
    /\ UNCHANGED <<earlier, contexts, calls, grammar, input, completed_trace, pc, result>>

\* the same iteration when the new task would lie more than Overrun positions
\* past the end of the input: the model follows the run no further
ScannerCut ==
    /\ pc = "loop" /\ traces.queue # <<>>
    /\ ~is_completed(HeadTask.dot)
    /\ next_unparsed(HeadTask.dot).t = "Terminal"
    /\ ScanAccepts
    /\ HeadTask.pos + 1 > Len(input) + Overrun
    /\ Advance
    /\ traces' = Popped
    /\ pc' = "cut"
    /\ last' = Step("cut", Head(traces.queue), next_unparsed(HeadTask.dot).mark,
                    "Default", "Default")
    /\ UNCHANGED <<earlier, contexts, calls, grammar, input, completed_trace, result>>

\* the same iteration with the task entered in the completed trace
ScannerMiss_recorded ==
    /\ pc = "loop" /\ traces.queue # <<>>
    /\ ~is_completed(HeadTask.dot)
    /\ next_unparsed(HeadTask.dot).t = "Terminal"
    /\ ~ScanAccepts
    /\ Advance
    /\ traces' = Popped
    /\ completed_trace' = Append(completed_trace, Head(traces.queue))
    /\ last' = Step("miss", Head(traces.queue), next_unparsed(HeadTask.dot).mark,
                    "Default", "Default")
    /\ UNCHANGED <<earlier, contexts, calls, grammar, input, pc, result>>

\* loop iteration on a task whose next factor is a terminal that does not match
ScannerMiss ==
    /\ pc = "loop" /\ traces.queue # <<>>
    /\ ~is_completed(HeadTask.dot)
    /\ next_unparsed(HeadTask.dot).t = "Terminal"
    /\ ~ScanAccepts
    /\ Advance
    /\ traces' = Popped
    /\ last' = Step("miss", Head(traces.queue), next_unparsed(HeadTask.dot).mark,
                    "Default", "Default")
    /\ UNCHANGED <<earlier, contexts, calls, grammar, input, completed_trace, pc, result>>

-----------------------------------------------------------------------------
(* parser.rs: tree construction.  The indextree arena is the sequence of its *)
(* nodes in creation order; a NodeId is an index, the parent of the root is 0. *)
(* Nodes are appended as last child when created, so creation order is        *)
(* document order.  src is a history field: the id of the task an Element or  *)
(* Attribute was made for, the end position of the character of a Text.       *)
(* The value parse returns is [kind, arena]; visits is its history.           *)

Node(kind, name, value, parent, src) ==
    [kind |-> kind, name |-> name, value |-> value, parent |-> parent, src |-> src]

\* the hints the composite builders mint names with
Hints == {"f-option", "f-star", "f-plus", "f-plus-sep", "f-star-sep", "f-opt"}

\* the names rules are defined under by hand or by the reflector
RuleNames ==
    BuildNames \cup {"a", "b", "c"} \cup {IxmlDefs[i].name : i \in 1..Len(IxmlDefs)}

\* names mint_internal_id can give (they begin with "--"), with ids up to more
\* than any of the grammars above mints
SynthNames ==
    {mint_internal_id(rule, k, hint).name :
        rule \in RuleNames, hint \in Hints, k \in FirstId..(FirstId + Cardinality(Hints))}

\* names of the grammars above that begin with '-': the minted ones and the one
\* GHyphen gives by hand
HyphenNames == SynthNames \cup {"-a"}

\* str::starts_with('-') on a rule name
starts_with_hyphen(name) == name \in HyphenNames

\* the lookup that returns the last completed task of that name and span
filter_completed_trace_last(tr, completed, name, origin, pos) ==
    LET hits == {i \in 1..Len(completed) :
                    LET t == get(tr, completed[i])
                    IN t.name = name /\ t.origin = origin /\ t.pos = pos}
    IN IF hits = {} THEN None
       ELSE completed[CHOOSE i \in hits : \A j \in hits : i >= j]

\* Parser::filter_completed_trace: the first completed task of that name and span
filter_completed_trace(tr, completed, name, origin, pos) ==
    LET hits == {i \in 1..Len(completed) :
                    LET t == get(tr, completed[i])
                    IN t.name = name /\ t.origin = origin /\ t.pos = pos}
    IN IF hits = {} THEN None
       ELSE completed[CHOOSE i \in hits : \A j \in hits : i <= j]

\* the node an item gets: none (Skip), an Attribute or an Element
NodeKindOf(tk) ==
    IF tk.mark = "Mute" \/ starts_with_hyphen(tk.name) THEN "Skip"
    ELSE IF tk.mark = "Attr" THEN "Attribute"
    ELSE "Element"

\* a history record of one call of unpack_parse_tree_internal that found its item:
\* the item, the mark the caller passed (the call-site mark of the match record),
\* the node the call made (0 for none) and the visit of the calling item (0 for
\* the call from unpack_parse_tree)
Visit(tid, call_mark, node, up) ==
    [tid |-> tid, call_mark |-> call_mark, node |-> node, up |-> up]

\* the item is the item of the visit up or of one of the calls above it.  The
\* visits are in the order the calls were made, so visit k is up or above it
\* when every visit after k up to up was called from k or from a later visit
OnCallPath(visits, up, tid) ==
    \E k \in 1..up :
        /\ visits[k].tid = tid
        /\ \A m \in (k + 1)..up : visits[m].up >= k

\* Parser::unpack_parse_tree_internal.  out = [nodes, status, visits]; status leaves
\* "ok" on the failed assertion ("panic") and when the recursion does not end
\* ("overflow"): it exceeds the depth budget, or it comes to an item whose own
\* call is still open, and the lookup, which depends on name, origin and end
\* alone, then repeats that call within itself for ever.  up is the visit of the
\* caller.  The branch that recurses is tested first, so that the evaluation
\* nests no deeper than the walk does.
RECURSIVE unpack_parse_tree_internal(_, _, _, _, _, _, _, _, _, _)
RECURSIVE unpack_children(_, _, _, _, _, _, _, _, _, _, _, _)
unpack_parse_tree_internal(fuel, tr, completed, out, name, mark, origin, end, root, up) ==
    LET matching_trace == filter_completed_trace(tr, completed, name, origin, end)
        tk == get(tr, matching_trace)
        kind == NodeKindOf(tk)
        new_root == IF kind = "Skip" THEN root ELSE Len(out.nodes) + 1
        out1 == [out EXCEPT
                   !.nodes = IF kind = "Skip" THEN @
                             ELSE Append(@, Node(kind, tk.name, "", root, matching_trace)),
                   !.visits = Append(@, Visit(matching_trace, mark,
                                  IF kind = "Skip" THEN 0 ELSE new_root, up))]
    IN IF /\ out.status = "ok"
          /\ fuel # 0
          /\ matching_trace # None
          /\ ~OnCallPath(out.visits, up, matching_trace)
       THEN unpack_children(fuel, tr, completed, out1, tk.dot.matched_so_far, 1,
                            name, origin, end, origin, new_root, Len(out1.visits))
       ELSE IF out.status # "ok" THEN out
       ELSE IF fuel = 0 THEN [out EXCEPT !.status = "overflow"]
       ELSE IF matching_trace = None THEN out
       ELSE [out EXCEPT !.status = "overflow"]

\* one turn of the loop over the match records of the item: a Text node for a
\* terminal that is not muted, the assertion and the recursive call for a
\* nonterminal
unpack_match_rec(fuel, tr, completed, out, match_rec, name, origin, end, new_origin, new_root, me) ==
    IF /\ match_rec.t = "NonTerm"
       /\ (match_rec.sym # name \/ new_origin # origin \/ match_rec.pos # end)
    THEN unpack_parse_tree_internal(fuel - 1, tr, completed, out, match_rec.sym,
                                    match_rec.mark, new_origin, match_rec.pos, new_root, me)
    ELSE IF match_rec.t = "NonTerm" THEN [out EXCEPT !.status = "panic"]
    ELSE IF match_rec.mark # "Mute"
    THEN [out EXCEPT !.nodes =
             Append(@, Node("Text", "", match_rec.sym, new_root, match_rec.pos))]
    ELSE out

unpack_children(fuel, tr, completed, out, recs, i, name, origin, end, new_origin, new_root, me) ==
    IF i > Len(recs) \/ out.status # "ok" THEN out
    ELSE unpack_children(fuel, tr, completed,
            unpack_match_rec(fuel, tr, completed, out, recs[i], name, origin, end,
                             new_origin, new_root, me),
            recs, i + 1, name, origin, end, recs[i].pos, new_root, me)

\* NodeId::descendants: the node itself and the nodes below it
RECURSIVE IsDescendant(_, _, _)
IsDescendant(nodes, j, nid) ==
    \/ j = nid
    \/ nodes[j].parent # 0 /\ IsDescendant(nodes, nodes[j].parent, nid)

\* String::replace('"', "&quot;") on the text of one node
EscapeQuote(txt) == IF txt = "\"" THEN "&quot;" ELSE txt

\* the same concatenation with the text taken as it is
unpack_attr_value_raw(attr_nid, nodes) ==
    LET piece(j) == IF IsDescendant(nodes, j, attr_nid) /\ nodes[j].kind = "Text"
                    THEN nodes[j].value ELSE ""
    IN JoinStr([j \in 1..Len(nodes) |-> piece(j)], "")

\* Parser::unpack_attr_value
unpack_attr_value(attr_nid, nodes) ==
    LET piece(j) == IF IsDescendant(nodes, j, attr_nid) /\ nodes[j].kind = "Text"
                    THEN EscapeQuote(nodes[j].value) ELSE ""
    IN JoinStr([j \in 1..Len(nodes) |-> piece(j)], "")

\* Parser::unpack_parse_tree
unpack_parse_tree(g, tr, completed, farthest) ==
    LET walked == unpack_parse_tree_internal(WalkFuel, tr, completed,
                      [nodes |-> <<Node("Root", "", "", 0, None)>>, status |-> "ok",
                       visits |-> <<>>],
                      get_root_definition_name(g), "Default", 0, farthest, 1, 0)
        filled == [j \in 1..Len(walked.nodes) |->
                      IF walked.nodes[j].kind = "Attribute"
                      THEN [walked.nodes[j] EXCEPT !.value = unpack_attr_value(j, walked.nodes)]
                      ELSE walked.nodes[j]]
    IN IF walked.status = "ok"
       THEN [kind |-> "Ok", arena |-> filled, visits |-> walked.visits]
       ELSE [kind |-> walked.status, arena |-> <<>>, visits |-> <<>>]

\* Parser::tree_to_testfmt_recurse.  The children of a node are the nodes appended
\* to it, in the order they were made.  An attribute value comes from
\* unpack_attr_value with its quotes replaced already, so the second replace
\* finds none.
RECURSIVE tree_to_testfmt_recurse(_, _)
tree_to_testfmt_recurse(nodes, nid) ==
    LET children(f(_)) ==
            JoinStr([k \in 1..Len(nodes) |-> IF nodes[k].parent = nid THEN f(k) ELSE ""], "")
        attr(k) == IF nodes[k].kind = "Attribute"
                   THEN " " \o nodes[k].name \o "=\"" \o nodes[k].value \o "\""
                   ELSE ""
        below(k) == tree_to_testfmt_recurse(nodes, k)
    IN IF nodes[nid].kind = "Element"
       THEN "<" \o nodes[nid].name \o children(attr) \o ">" \o children(below)
                \o "</" \o nodes[nid].name \o ">"
       ELSE IF nodes[nid].kind = "Text" THEN nodes[nid].value
       ELSE ""

\* Parser::tree_to_testfmt
tree_to_testfmt(nodes) ==
    JoinStr([k \in 1..Len(nodes) |->
                IF nodes[k].parent = 1 THEN tree_to_testfmt_recurse(nodes, k) ELSE ""], "")

-----------------------------------------------------------------------------
(* grammar.rs: the reflector, from the parse tree of an iXML text to a Grammar *)

\* Parser::get_elements: the immediate element children of a node, in order
get_elements_from(nodes, nid, k) ==
    SelectSeq([j \in 1..(Len(nodes) + 1 - k) |-> j + k - 1],
              LAMBDA j : nodes[j].parent = nid /\ nodes[j].kind = "Element")

get_elements(nodes, nid) == get_elements_from(nodes, nid, 1)

\* Parser::get_child_elements, the name the reflector calls for the element
\* children of a node
get_child_elements(nodes, nid) == get_elements(nodes, nid)

\* Parser::get_child_elements_named
get_child_elements_named(nodes, nid, name) ==
    SelectSeq(get_child_elements(nodes, nid), LAMBDA k : nodes[k].name = name)

\* Parser::get_attributes, read at one key: the attribute child of the name that
\* the HashMap keeps (the last collected), 0 when there is none
get_attributes(nodes, elem, name) ==
    LET S == {k \in 1..Len(nodes) : /\ nodes[k].parent = elem
                                    /\ nodes[k].kind = "Attribute"
                                    /\ nodes[k].name = name}
    IN IF S = {} THEN 0 ELSE CHOOSE k \in S : \A m \in S : m <= k

\* str::chars of the value unpack_attr_value gave an attribute: the texts below
\* it, a double quote written as the six characters of &quot;
chars_from(nodes, attr_nid, j) ==
    JoinChars([m \in 1..(Len(nodes) + 1 - j) |->
                  IF IsDescendant(nodes, m + j - 1, attr_nid) /\ nodes[m + j - 1].kind = "Text"
                  THEN IF nodes[m + j - 1].value = "\"" THEN <<"&", "q", "u", "o", "t", ";">>
                       ELSE <<nodes[m + j - 1].value>>
                  ELSE <<>>],
              <<>>)

chars(nodes, attr_nid) == chars_from(nodes, attr_nid, 1)

\* the builder value that stands for a panic of the reflector: unimplemented!,
\* expect, assert_eq! or the index of a HashMap at a missing key
Panicked == Built(SeqBuilder_new, 0)

\* Grammar::append_factor_from_tree and Grammar::build_sequence_from_tree.
\* b and ctr are the builder and the counter of the RuleContext before the call.
RECURSIVE append_factor_from_tree(_, _, _, _, _, _)
RECURSIVE build_sequence_loop(_, _, _, _, _)
RECURSIVE build_all_sequences(_, _, _, _, _, _)

build_sequence_loop(nodes, kids, i, rulename, acc) ==
    IF acc.nid = 0 \/ i > Len(kids) THEN acc
    ELSE Bind1(LAMBDA r : build_sequence_loop(nodes, kids, i + 1, rulename, r),
               append_factor_from_tree(nodes, acc.b, acc.nid, nodes[kids[i]].name,
                                       kids[i], rulename))

build_sequence_from_tree(nodes, node, rulename, ctr) ==
    build_sequence_loop(nodes, get_child_elements(nodes, node), 1, rulename,
                        Built(SeqBuilder_new, ctr))

\* the map of build_sequence_from_tree over the <alt> children of an <alts>:
\* [bs, nid], nid = 0 after a panic
build_all_sequences(nodes, alt_elements, i, rulename, bs, ctr) ==
    IF ctr = 0 \/ i > Len(alt_elements) THEN [bs |-> bs, nid |-> ctr]
    ELSE Bind1(LAMBDA r : build_all_sequences(nodes, alt_elements, i + 1, rulename,
                                              Append(bs, r.b), r.nid),
               build_sequence_from_tree(nodes, alt_elements[i], rulename, ctr))

\* the arms "repeat0" and "repeat1"
repeat_from_tree(nodes, b, ctr, name, nid, rulename) ==
    LET children == get_child_elements(nodes, nid)
    IN IF Len(children) = 0 THEN Panicked
       ELSE Bind1(LAMBDA repeat_this :
                IF repeat_this.nid = 0 THEN Panicked
                ELSE IF Len(children) >= 2
                THEN IF nodes[children[2]].name # "sep" THEN Panicked
                     ELSE Bind1(LAMBDA separated_by :
                              IF separated_by.nid = 0 THEN Panicked
                              ELSE IF name = "repeat0"
                              THEN repeat0_sep(rulename, separated_by.nid, b,
                                               repeat_this.b, separated_by.b)
                              ELSE repeat1_sep(rulename, separated_by.nid, b,
                                               repeat_this.b, separated_by.b),
                              build_sequence_from_tree(nodes, children[2], rulename,
                                                       repeat_this.nid))
                ELSE IF name = "repeat0"
                THEN repeat0(rulename, repeat_this.nid, b, repeat_this.b)
                ELSE repeat1(rulename, repeat_this.nid, b, repeat_this.b),
                append_factor_from_tree(nodes, SeqBuilder_new, ctr,
                                        nodes[children[1]].name, children[1], rulename))

append_factor_from_tree(nodes, b, ctr, name, nid, rulename) ==
    LET string_attr == get_attributes(nodes, nid, "string")
        name_attr == get_attributes(nodes, nid, "name")
    IN CASE name = "alts" ->
              LET alt_elements == get_child_elements_named(nodes, nid, "alt")
              IN IF Len(alt_elements) = 1
                 THEN append_factor_from_tree(nodes, b, ctr, "alt", alt_elements[1], rulename)
                 ELSE Bind1(LAMBDA altrules :
                          IF altrules.nid = 0 THEN Panicked
                          ELSE alts(rulename, altrules.nid, b, altrules.bs),
                          build_all_sequences(nodes, alt_elements, 1, rulename, <<>>, ctr))
         [] name = "literal" ->
              IF string_attr = 0 \/ chars(nodes, string_attr) = <<>> THEN Panicked
              ELSE Built(push_factor(b, ch(chars(nodes, string_attr)[1])), ctr)
         [] name = "inclusion" ->
              IF string_attr = 0 THEN Built(b, ctr)
              ELSE Built(push_factor(b, ch_in(chars(nodes, string_attr))), ctr)
         [] name = "exclusion" ->
              IF string_attr = 0 THEN Built(b, ctr)
              ELSE Built(push_factor(b, ch_not_in(chars(nodes, string_attr))), ctr)
         [] name = "nonterminal" ->
              IF name_attr = 0 THEN Panicked
              ELSE Built(push_factor(b, nt(nodes[name_attr].value)), ctr)
         [] name = "option" ->
              Bind1(LAMBDA subexpr :
                      IF subexpr.nid = 0 THEN Panicked
                      ELSE opt(rulename, subexpr.nid, b, subexpr.b),
                    build_sequence_from_tree(nodes, nid, rulename, ctr))
         [] name \in {"repeat0", "repeat1"} ->
              repeat_from_tree(nodes, b, ctr, name, nid, rulename)
         [] OTHER -> Panicked

\* Grammar::construct_rule_from_tree: [g, nid] with the grammar after the <alt>
\* children from the i-th on and the counter of the one RuleContext of the rule
RECURSIVE construct_rule_loop(_, _, _, _, _, _)
construct_rule_loop(nodes, kids, i, mark, rule_name, st) ==
    IF st.nid = 0 \/ i > Len(kids) THEN st
    ELSE IF nodes[kids[i]].name # "alt"
    THEN construct_rule_loop(nodes, kids, i + 1, mark, rule_name, st)
    ELSE Bind2(LAMBDA sv, rb :
                 IF rb.nid = 0 THEN [g |-> sv.g, nid |-> 0]
                 ELSE construct_rule_loop(nodes, kids, i + 1, mark, rule_name,
                          [g |-> mark_define(sv.g, mark, rule_name, rb.b), nid |-> rb.nid]),
               st, build_sequence_from_tree(nodes, kids[i], rule_name, st.nid))

construct_rule_from_tree(nodes, rule, mark, rule_name, g) ==
    construct_rule_loop(nodes, get_child_elements(nodes, rule), 1, mark, rule_name,
                        [g |-> g, nid |-> FirstId])

\* the mark a <rule> carries in its attribute "mark"
rule_mark(nodes, rule) ==
    LET k == get_attributes(nodes, rule, "mark")
    IN IF k = 0 THEN "Default"
       ELSE IF nodes[k].value = "@" THEN "Attr"
       ELSE IF nodes[k].value = "-" THEN "Mute"
       ELSE IF nodes[k].value = "^" THEN "Unmute"
       ELSE "Default"

\* Grammar::from_parse_tree: [kind, g]; kind is "Ok", StaticErr ("no rules
\* present") or "panic"
RECURSIVE from_parse_tree_loop(_, _, _, _)
from_parse_tree_loop(nodes, all_rules, i, g) ==
    IF i > Len(all_rules) THEN [kind |-> "Ok", g |-> g]
    ELSE IF get_attributes(nodes, all_rules[i], "name") = 0
    THEN [kind |-> "panic", g |-> Grammar_new]
    ELSE Bind1(LAMBDA st :
                 IF st.nid = 0 THEN [kind |-> "panic", g |-> Grammar_new]
                 ELSE from_parse_tree_loop(nodes, all_rules, i + 1, st.g),
               construct_rule_from_tree(nodes, all_rules[i], rule_mark(nodes, all_rules[i]),
                   nodes[get_attributes(nodes, all_rules[i], "name")].value, g))

from_parse_tree(nodes) ==
    LET all_rules == SelectSeq([k \in 1..Len(nodes) |-> k],
                               LAMBDA k : nodes[k].kind = "Element" /\ nodes[k].name = "rule")
    IN IF Len(all_rules) = 0 THEN [kind |-> StaticErr, g |-> Grammar_new]
       ELSE from_parse_tree_loop(nodes, all_rules, 1, Grammar_new)

\* Grammar::from_ixml_str after the bootstrap parse has returned res: the ?
\* hands an Err of the parse on, an Ok goes to the reflector
from_ixml_str(res) ==
    IF res.kind # "Ok" THEN [kind |-> res.kind, g |-> Grammar_new]
    ELSE from_parse_tree(res.arena)

\* the loop ends on the empty queue and parse returns what unpack_parse_tree returns
Finish ==
    /\ pc = "loop" /\ traces.queue = <<>>
    /\ result' = unpack_parse_tree(grammar, traces, completed_trace, farthest_pos)
    /\ pc' = "done"
    /\ last' = Step("finish", None, "Default", "Default", "Default")
    /\ UNCHANGED <<earlier, contexts, calls, grammar, input, traces, completed_trace, farthest_pos>>

Next ==
    \/ Seed
    \/ SeedNoRule
    \/ Completer
    \/ Predictor
    \/ PredictorMissing
    \/ Scanner
    \/ ScannerCut
    \/ ScannerMiss
    \/ Finish

Spec == Init /\ [][Next]_vars

-----------------------------------------------------------------------------
(* from_ixml_str: the parser of the bootstrap grammar, Parser::new(ixml_grammar()) *)

IxmlInit ==
    /\ grammar = GIxml
    /\ input = <<>>
    /\ traces = TraceArena_new
    /\ completed_trace = <<>>
    /\ farthest_pos = 0
    /\ pc = "new"
    /\ result = [kind |-> "none", arena |-> <<>>, visits |-> <<>>]
    /\ last = NoStep
    /\ contexts = NoContexts
    /\ calls = <<>>
    /\ earlier = <<>>

IxmlNext ==
    \/ Seed
    \/ Completer
    \/ Predictor
    \/ Scanner
    \/ ScannerCut
    \/ ScannerMiss
    \/ Finish

IxmlSpec == IxmlInit /\ [][IxmlNext]_vars

\* what from_ixml_str returns once the bootstrap parse has returned
Reflected == from_ixml_str(result)

-----------------------------------------------------------------------------
(* a Parser value used for more than one parse *)

\* parse(inp) called on the Parser that has returned from a parse: the fields are
\* as that call left them, and the seed goes through TraceArena::task
ParseAgain ==
    /\ pc = "done"
    /\ Len(earlier) < MaxReuse
    /\ get_root_definition(grammar) # NoRule
    /\ \E inp \in Inputs(AlphabetOf(grammar)) : input' = inp
    /\ traces' = seed_loop(traces, grammar, 1)
    /\ pc' = "loop"
    /\ last' = Step("seed", None, "Default", "Default", "Default")
    /\ earlier' = Append(earlier, [input |-> input, result |-> result])
    /\ UNCHANGED <<contexts, calls, grammar, completed_trace, farthest_pos, result>>

\* Parser::new(grammar) and parse of the same input on the new value, after the
\* reused Parser has returned
NewParser ==
    /\ pc = "done"
    /\ Len(earlier) = MaxReuse
    /\ traces' = seed_loop(TraceArena_new, grammar, 1)
    /\ completed_trace' = <<>>
    /\ farthest_pos' = 0
    /\ pc' = "loop"
    /\ last' = Step("seed", None, "Default", "Default", "Default")
    /\ earlier' = Append(earlier, [input |-> input, result |-> result])
    /\ UNCHANGED <<contexts, calls, grammar, input, result>>

ReuseInit ==
    /\ grammar \in {GNullable, GSeq}
    /\ input = <<>>
    /\ traces = TraceArena_new
    /\ completed_trace = <<>>
    /\ farthest_pos = 0
    /\ pc = "new"
    /\ result = [kind |-> "none", arena |-> <<>>, visits |-> <<>>]
    /\ last = NoStep
    /\ contexts = NoContexts
    /\ calls = <<>>
    /\ earlier = <<>>

ReuseNext ==
    \/ Seed
    \/ Completer
    \/ Predictor
    \/ Scanner
    \/ ScannerMiss
    \/ Finish
    \/ ParseAgain
    \/ NewParser

ReuseSpec == ReuseInit /\ [][ReuseNext]_vars

-----------------------------------------------------------------------------
(* parser.rs: the queue discipline of the predictor.  The implemented run     *)
(* queues predicted items in front (line 451); the other discipline, kept in  *)
(* the source as a comment (line 452), queues them at the back.  A run of the *)
(* first is followed by a run of the second on the same grammar and input.    *)

\* the predictor loop with self.queue_back(maybe_id) in place of queue_front
RECURSIVE predictor_loop_back(_, _, _, _, _, _)
predictor_loop_back(tr, g, name, mark, new_pos, i) ==
    LET rules == get_definition(g, name).alts
    IN IF i > Len(rules) THEN tr
       ELSE LET maybe_id == task_downstream(tr, name, mark, new_pos, new_pos,
                                            DotNotation_new(rules[i]))
            IN IF maybe_id.id = None
               THEN predictor_loop_back(maybe_id.tr, g, name, mark, new_pos, i + 1)
               ELSE predictor_loop_back(queue_back(maybe_id), g, name, mark, new_pos, i + 1)

\* the completed trace as the items it names, in the order they were completed
completed_items(tr, completed) ==
    [j \in 1..Len(completed) |->
        [name |-> get(tr, completed[j]).name, mark |-> get(tr, completed[j]).mark,
         origin |-> get(tr, completed[j]).origin, pos |-> get(tr, completed[j]).pos]]

\* PREDICTOR of the implemented run
PredictorFront ==
    /\ earlier = <<>>
    /\ Predictor

\* PREDICTOR of the run that queues at the back
PredictorBack ==
    /\ earlier # <<>>
    /\ pc = "loop" /\ traces.queue # <<>>
    /\ ~is_completed(HeadTask.dot)
    /\ next_unparsed(HeadTask.dot).t = "Nonterm"
    /\ contains_key(grammar, next_unparsed(HeadTask.dot).name)
    /\ Advance
    /\ LET tid == Head(traces.queue)
           factor == next_unparsed(HeadTask.dot)
           defn_mark == get_definition_mark(grammar, factor.name)
           eff == effective_mark(defn_mark, factor.mark)
       IN /\ traces' = predictor_loop_back(save_continuation(Popped, factor.name, tid),
                                           grammar, factor.name, eff, HeadTask.pos, 1)
          /\ last' = Step("predictor", tid, factor.mark, defn_mark, eff)
    /\ UNCHANGED <<earlier, contexts, calls, grammar, input, completed_trace, pc, result>>

\* the implemented run has returned: a new Parser parses the same input, queueing
\* predicted items at the back
ParseBack ==
    /\ pc = "done" /\ last.kind = "finish"
    /\ earlier = <<>>
    /\ traces' = seed_loop(TraceArena_new, grammar, 1)
    /\ completed_trace' = <<>>
    /\ farthest_pos' = 0
    /\ pc' = "loop"
    /\ last' = Step("seed", None, "Default", "Default", "Default")
    /\ earlier' = <<[input |-> input, result |-> result,
                     completed |-> completed_items(traces, completed_trace)]>>
    /\ UNCHANGED <<contexts, calls, grammar, input, result>>

\* the grammars of the test sets whose nonterminals are all defined
QueueInit ==
    /\ grammar \in {TestSets[i].g : i \in 1..Len(TestSets)} \ {GEmpty, GMissing}
    /\ input = <<>>
    /\ traces = TraceArena_new
    /\ completed_trace = <<>>
    /\ farthest_pos = 0
    /\ pc = "new"
    /\ result = [kind |-> "none", arena |-> <<>>, visits |-> <<>>]
    /\ last = NoStep
    /\ contexts = NoContexts
    /\ calls = <<>>
    /\ earlier = <<>>

QueueNext ==
    \/ Seed
    \/ Completer
    \/ PredictorFront
    \/ PredictorBack
    \/ Scanner
    \/ ScannerCut
    \/ ScannerMiss
    \/ Finish
    \/ ParseBack

QueueSpec == QueueInit /\ [][QueueNext]_vars

-----------------------------------------------------------------------------
(* Reference semantics the claims are stated against *)

Names(g) == SeqToSet(g.defn_order)
RootName == get_root_definition_name(grammar)
Arena == traces.arena
Completed == {get(traces, completed_trace[i]) : i \in 1..Len(completed_trace)}

\* the factors alt[k..] derive the characters inp[i..j), given the derivable spans D
RECURSIVE RefMatch(_, _, _, _, _, _)
RefMatch(inp, D, alt, k, i, j) ==
    IF k > Len(alt) THEN i = j
    ELSE IF alt[k].t = "Terminal"
    THEN i < j /\ Lit_accept(alt[k].lit, inp[i + 1]) /\ RefMatch(inp, D, alt, k + 1, i + 1, j)
    ELSE \E m \in i..j : <<alt[k].name, i, m>> \in D /\ RefMatch(inp, D, alt, k + 1, m, j)

RefStep(g, inp, D) ==
    {s \in Names(g) \X (0..Len(inp)) \X (0..Len(inp)) :
        /\ s[2] <= s[3]
        /\ \E a \in 1..Len(g.definitions[s[1]].alts) :
              RefMatch(inp, D, g.definitions[s[1]].alts[a], 1, s[2], s[3])}

RECURSIVE RefFix(_, _, _)
RefFix(g, inp, D) ==
    LET E == RefStep(g, inp, D) IN IF E = D THEN D ELSE RefFix(g, inp, E)

\* the derivation relation: <<n, i, j>> iff rule n derives inp[i..j)
Derives(g, inp) == RefFix(g, inp, {})

\* the completed trace holds a root item spanning the whole input
RootCompleted ==
    \E t \in Completed : t.name = RootName /\ t.origin = 0 /\ t.pos = Len(input)

\* the returned tree has a node for the root rule under Root
HasRootNode ==
    /\ result.kind = "Ok"
    /\ \E j \in 1..Len(result.arena) :
          /\ result.arena[j].kind \in {"Element", "Attribute"}
          /\ result.arena[j].name = RootName
          /\ result.arena[j].parent = 1

-----------------------------------------------------------------------------
(* C1..C7 *)

\* C1: completeness of recognition.  When parse has returned and the root rule
\* derives the whole input, the completed trace holds a root item with origin 0
\* and pos = |input| and the returned tree has the root rule as its top node.
C1_Completeness ==
    (pc = "done" /\ <<RootName, 0, Len(input)>> \in Derives(grammar, input))
        => (RootCompleted /\ HasRootNode)

\* C2: no tree for a proper prefix.  The returned tree holds a node for the root
\* rule only when a completed root item with origin 0 and pos = |input| exists.
C2_NoPrefixTree ==
    (pc = "done" /\ HasRootNode) => RootCompleted

\* C3: termination.  The recognizer loop of parse reaches the empty queue after
\* finitely many dequeue steps, because the items it can create are finitely many:
\* the loop is never found still scanning with its head item Overrun positions
\* past the end of the input, where every further scan makes an item never seen.
C3_Terminates == pc \in {"new", "loop", "done"}

\* C4: every item stored in the arena has origin <= pos <= |input|.
C4_PosWithinInput ==
    \A i \in 1..Len(Arena) :
        Arena[i].origin <= Arena[i].pos /\ Arena[i].pos <= Len(input)

\* C5: when recognition has ended without a root item with origin 0 and
\* pos = |input|, parse returns a DynamicError and no tree.
C5_DynamicError ==
    (pc = "done" /\ ~RootCompleted) => (result.kind = "DynamicError" /\ result.arena = <<>>)

\* C6: soundness of completed items.  Every completed item (n, o, p) is such that
\* n derives input[o..p), and each of its Term(ch, q, _) records has ch = input[q-1].
C6_Soundness ==
    LET D == Derives(grammar, input)
    IN \A t \in Completed :
          /\ t.pos <= Len(input)
          /\ <<t.name, t.origin, t.pos>> \in D
          /\ \A k \in 1..Len(t.dot.matched_so_far) :
                LET r == t.dot.matched_so_far[k]
                IN r.t = "Term" =>
                      (r.pos >= 1 /\ r.pos <= Len(input) /\ r.sym = input[r.pos])

-----------------------------------------------------------------------------
(* C7..C10: marks and the output tree *)

\* the mark resolution as the specification tabulates it, for definition mark d
\* and call-site mark m
SpecMark(d, m) ==
    IF d = "Attr" \/ m = "Attr" THEN "Attr"
    ELSE IF m = "Unmute" THEN "Unmute"
    ELSE IF d = "Mute" \/ m = "Mute" THEN "Mute"
    ELSE IF d = "Unmute" THEN "Unmute"
    ELSE "Default"

\* the effective mark of the match a visit of the tree walk stands for: the mark
\* of its call site resolved against the mark of the definition of its rule
VisitMark(v) == SpecMark(grammar.definitions[get(traces, v.tid).name].mark, v.call_mark)

\* C7: each nonterminal match gets its node by the effective mark resolved at the
\* call site that matched it: an Element named after the rule for Default and
\* Unmute, an Attribute for Attr, no node for Mute.
C7_NodeByCallSiteMark ==
    pc = "done" =>
        \A k \in 1..Len(result.visits) :
            LET v == result.visits[k]
                e == VisitMark(v)
                want == IF e = "Mute" THEN "none"
                        ELSE IF e = "Attr" THEN "Attribute" ELSE "Element"
            IN IF want = "none" THEN v.node = 0
               ELSE /\ v.node # 0
                    /\ result.arena[v.node].kind = want
                    /\ result.arena[v.node].name = get(traces, v.tid).name

\* C8: the items the predictor creates for a nonterminal with call-site mark m
\* and definition mark d carry the mark of the specification's table, and the
\* resolution agrees with that table on all 16 pairs.
C8_EffectiveMarkTable ==
    /\ \A d \in Mark, m \in Mark : effective_mark(d, m) = SpecMark(d, m)
    /\ last.kind = "predictor" =>
          LET factor == next_unparsed(get(traces, last.tid).dot)
          IN \A i \in (last.arena_len + 1)..Len(Arena) :
                /\ Arena[i].name = factor.name
                /\ Arena[i].mark = SpecMark(grammar.definitions[factor.name].mark, factor.mark)

\* a predictor step has just created items for ^dd where dd is defined Mute
C8_Witness ==
    /\ last.kind = "predictor"
    /\ Len(Arena) > last.arena_len
    /\ next_unparsed(get(traces, last.tid).dot).mark = "Unmute"
    /\ grammar.definitions[next_unparsed(get(traces, last.tid).dot).name].mark = "Mute"
    /\ Arena[Len(Arena)].mark = "Unmute"

\* the node of the nearest ancestor match of visit k (k itself included) whose
\* effective mark is not Mute; the Root node when there is none
RECURSIVE NearestNode(_, _)
NearestNode(visits, k) ==
    IF k = 0 THEN 1
    ELSE IF VisitMark(visits[k]) # "Mute" THEN visits[k].node
    ELSE NearestNode(visits, visits[k].up)

\* C9: every Attribute node is a child of the node created for its nearest
\* non-Mute ancestor rule in the derivation; Mute matches pass their parent on.
C9_AttrUnderNearest ==
    pc = "done" =>
        \A k \in 1..Len(result.visits) :
            LET v == result.visits[k]
            IN (v.node # 0 /\ result.arena[v.node].kind = "Attribute")
                  => result.arena[v.node].parent = NearestNode(result.visits, v.up)

\* one character as it stands in an attribute value
Quoted(c) == IF c = "\"" THEN "&quot;" ELSE c

\* the text below node j of a tree, its children taken in document order
RECURSIVE TextBelow(_, _)
TextBelow(nodes, j) ==
    IF nodes[j].kind = "Text" THEN Quoted(nodes[j].value)
    ELSE JoinStr([k \in 1..Len(nodes) |->
                     IF nodes[k].parent = j THEN TextBelow(nodes, k) ELSE ""], "")

\* the unmuted characters an item matched, read off its match records and those
\* of the completed items its nonterminal records stand for
RECURSIVE ItemText(_, _)
RECURSIVE RecsText(_, _, _, _)
ItemText(fuel, tid) ==
    IF fuel = 0 THEN ""
    ELSE RecsText(fuel, get(traces, tid).dot.matched_so_far, 1, get(traces, tid).origin)

RecsText(fuel, recs, i, new_origin) ==
    IF i > Len(recs) THEN ""
    ELSE LET r == recs[i]
             sub == filter_completed_trace(traces, completed_trace, r.sym, new_origin, r.pos)
             here == IF r.t = "Term" THEN (IF r.mark # "Mute" THEN Quoted(r.sym) ELSE "")
                     ELSE IF sub = None THEN "" ELSE ItemText(fuel - 1, sub)
         IN here \o RecsText(fuel, recs, i + 1, r.pos)

\* the item matched a character itself through a terminal that is not Mute
HasUnmutedChar(tid) ==
    \E k \in 1..Len(get(traces, tid).dot.matched_so_far) :
        LET r == get(traces, tid).dot.matched_so_far[k]
        IN r.t = "Term" /\ r.mark # "Mute"

\* C10: the value of every Attribute node is the concatenation in document order
\* of its Text descendants with each double quote replaced by &quot;; that is the
\* unmuted characters its rule matched, without those of Mute terminals, and it
\* is not empty when the rule matched an unmuted character.
C10_AttrValue ==
    pc = "done" =>
        \A j \in 1..Len(result.arena) :
            result.arena[j].kind = "Attribute" =>
                /\ result.arena[j].value = TextBelow(result.arena, j)
                /\ result.arena[j].value = ItemText(WalkFuel, result.arena[j].src)
                /\ HasUnmutedChar(result.arena[j].src) => result.arena[j].value # ""

\* parse has returned the tree of a"b under doc = @q, "b": the attribute q holds
\* the escaped quote and not the muted a
C10_Witness ==
    /\ pc = "done"
    /\ input = <<"a", "\"", "b">>
    /\ \E j \in 1..Len(result.arena) :
          /\ result.arena[j].kind = "Attribute"
          /\ result.arena[j].name = "q"
          /\ result.arena[j].value = "&quot;"

-----------------------------------------------------------------------------
(* C11: the text of the tree *)

\* the text of a tree: the values of its Text nodes in document order
TreeText(nodes) ==
    JoinStr([j \in 1..Len(nodes) |-> IF nodes[j].kind = "Text" THEN nodes[j].value ELSE ""], "")

\* the terminal match records below an item, Mute ones included, in the order of
\* the derivation the tree walk follows
RECURSIVE ItemTerms(_, _)
RECURSIVE RecsTerms(_, _, _, _)
ItemTerms(fuel, tid) ==
    IF fuel = 0 \/ tid = None THEN <<>>
    ELSE RecsTerms(fuel, get(traces, tid).dot.matched_so_far, 1, get(traces, tid).origin)

RecsTerms(fuel, recs, i, new_origin) ==
    IF i > Len(recs) THEN <<>>
    ELSE LET r == recs[i]
             here == IF r.t = "Term" THEN <<r>>
                     ELSE ItemTerms(fuel - 1,
                              filter_completed_trace(traces, completed_trace, r.sym,
                                                     new_origin, r.pos))
         IN here \o RecsTerms(fuel, recs, i + 1, r.pos)

\* the terminal matches of the derivation of the returned tree
RootTerms ==
    ItemTerms(WalkFuel,
        filter_completed_trace(traces, completed_trace, RootName, 0, farthest_pos))

\* C11: when parse returns a tree, the terminal matches of its derivation consume
\* the input one character each, and the Text nodes in document order spell the
\* input without the characters matched by Mute terminals.
C11_TextIsInput ==
    (pc = "done" /\ result.kind = "Ok") =>
        /\ Len(RootTerms) = Len(input)
        /\ \A k \in 1..Len(RootTerms) :
              RootTerms[k].pos = k /\ k <= Len(input) /\ RootTerms[k].sym = input[k]
        /\ TreeText(result.arena) =
              JoinStr([k \in 1..Len(input) |->
                          IF k <= Len(RootTerms) /\ RootTerms[k].mark = "Mute"
                          THEN "" ELSE input[k]], "")

\* the same for the runs that recognized the whole input
C11_TextOfSentence ==
    (pc = "done" /\ result.kind = "Ok" /\ RootCompleted) =>
        /\ Len(RootTerms) = Len(input)
        /\ \A k \in 1..Len(RootTerms) :
              RootTerms[k].pos = k /\ k <= Len(input) /\ RootTerms[k].sym = input[k]
        /\ TreeText(result.arena) =
              JoinStr([k \in 1..Len(input) |->
                          IF k <= Len(RootTerms) /\ RootTerms[k].mark = "Mute"
                          THEN "" ELSE input[k]], "")

-----------------------------------------------------------------------------
(* C12, C13: grammar-level errors *)

\* some factor of some alternative references a nonterminal without a definition
HasMissingRef(g) ==
    \E n \in Names(g) : \E a \in 1..Len(g.definitions[n].alts) :
        \E k \in 1..Len(g.definitions[n].alts[a]) :
            LET f == g.definitions[n].alts[a][k]
            IN f.t = "Nonterm" /\ f.name \notin Names(g)

\* C12: parse on a grammar in which a factor references a nonterminal that has
\* no definition returns a StaticError and no tree, whatever the input.
C12_MissingRuleStaticError ==
    (pc = "done" /\ HasMissingRef(grammar)) =>
        (result.kind = StaticErr /\ result.arena = <<>>)

\* C13: parse on a grammar with no definitions returns a StaticError, and no item
\* is created or enqueued before it.
C13_EmptyGrammarStaticError ==
    grammar.defn_order = <<>> =>
        /\ traces.arena = <<>> /\ traces.queue = <<>> /\ traces.hashes = {}
        /\ completed_trace = <<>>
        /\ pc = "done" => (result.kind = StaticErr /\ result.arena = <<>>)

\* parse has returned on the grammar without definitions, given a non-empty input
C13_Witness ==
    /\ grammar.defn_order = <<>>
    /\ pc = "done"
    /\ input # <<>>
    /\ last.kind = "norule"

-----------------------------------------------------------------------------
(* Building a grammar: RuleContext::new, Grammar::define, Grammar::mark_define *)
(* on builders written as method chains.  A chain is the sequence of its calls *)
(* on ctx.seq(); a call is [op, f, subs] with the factor a primitive pushes or *)
(* the chains of the builders a composite takes.                               *)

\* the chains rules are defined with
BuilderChains ==
    << ChA,
       <<Push(ch("a")), Push(mark_nt("x", "Attr"))>>,
       <<Call("opt", <<ChA>>)>>,
       <<Call("repeat1", <<ChA>>), Push(ch("+"))>>,
       <<Call("repeat0_sep", <<ChA, ChPlus>>)>>,
       <<Call("alts", <<NtX, <<Call("repeat1_sep", <<ChA, ChPlus>>)>> >>)>>,
       <<Call("repeat0", << <<Call("opt", <<ChA>>)>> >>), Call("opt", <<NtX>>)>> >>

\* the marks mark_define is called with
BuildMarks == {"Mute", "Attr"}

\* Grammar::new and nothing else yet
BuildInit ==
    /\ grammar = Grammar_new
    /\ contexts = NoContexts
    /\ calls = <<>>
    /\ pc = "build"
    /\ input = <<>>
    /\ traces = TraceArena_new
    /\ completed_trace = <<>>
    /\ farthest_pos = 0
    /\ result = [kind |-> "none", arena |-> <<>>, visits |-> <<>>]
    /\ last = NoStep
    /\ earlier = <<>>

\* g.mark_define(mark, name, <chain k on the live context of name>)
DoDefine(mark, name, k) ==
    LET built == EvalChain(BuilderChains[k], name, contexts[name], SeqBuilder_new, 1)
    IN /\ pc = "build" /\ Len(calls) < MaxCalls
       /\ built.b.status = "ok"
       /\ grammar' = mark_define(grammar, mark, name, built.b)
       /\ contexts' = [contexts EXCEPT ![name] = built.nid]
       /\ calls' = Append(calls, [mark |-> mark, name |-> name, chain |-> k,
                                  first_id |-> contexts[name], next_id |-> built.nid,
                                  sb |-> built.b])
       /\ UNCHANGED <<earlier, input, traces, completed_trace, farthest_pos, pc, result, last>>

\* RuleContext::new(name): the following builders of name count from 1 again
NewContext ==
    /\ pc = "build" /\ Len(calls) < MaxCalls
    /\ \E name \in BuildNames :
          /\ contexts[name] # FirstId
          /\ contexts' = [contexts EXCEPT ![name] = FirstId]
    /\ UNCHANGED <<earlier, grammar, calls, input, traces, completed_trace, farthest_pos, pc,
                   result, last>>

\* Grammar::define
Define == \E name \in BuildNames, k \in 1..Len(BuilderChains) : DoDefine("Default", name, k)

\* Grammar::mark_define
MarkDefine ==
    \E mark \in BuildMarks, name \in BuildNames, k \in 1..Len(BuilderChains) :
        DoDefine(mark, name, k)

BuildNext ==
    \/ NewContext
    \/ Define
    \/ MarkDefine

BuildSpec == BuildInit /\ [][BuildNext]_vars


\* ---------------------------------------------------------------------------
\* C15: after any sequence of define/mark_define calls, the definition of a
\* name has the mark of the first call on that name and, as its alternatives,
\* the main rules of all the calls on that name, in call order, duplicates
\* included.
CallsOn(name) == SelectSeq(calls, LAMBDA c : c.name = name)

C15_FirstMarkAllAlts ==
    pc = "build" =>
        \A name \in BuildNames :
            LET on == CallsOn(name)
            IN IF on = <<>> THEN name \notin DOMAIN grammar.definitions
               ELSE /\ name \in DOMAIN grammar.definitions
                    /\ grammar.definitions[name].mark = on[1].mark
                    /\ grammar.definitions[name].alts = [i \in 1..Len(on) |-> on[i].sb.factors]

\* two calls on doc with different marks and the same main rule
C15_Witness ==
    /\ pc = "build" /\ Len(calls) = 2
    /\ calls[1].name = "doc" /\ calls[2].name = "doc"
    /\ calls[1].mark = "Default" /\ calls[2].mark = "Attr"
    /\ calls[1].sb.factors = calls[2].sb.factors
    /\ Len(grammar.definitions["doc"].alts) = 2


\* ---------------------------------------------------------------------------
\* C16: after any sequence of define/mark_define calls, the grammar's
\* definition order lists every defined name, user and synthesized, exactly
\* once, in the order of first introduction (a call introduces its main rule's
\* name and then its builder's synthesized names in the builder's order), its
\* length is the number of definitions, and the serialized text has one block
\* per name in that same order.
RECURSIVE Introduced(_)
Introduced(i) ==
    IF i = 0 THEN <<>>
    ELSE Introduced(i - 1) \o <<calls[i].name>> \o calls[i].sb.defn_order

RECURSIVE FirstOccurrences(_, _, _)
FirstOccurrences(seq, i, acc) ==
    IF i > Len(seq) THEN acc
    ELSE FirstOccurrences(seq, i + 1, IF Contains(acc, seq[i]) THEN acc ELSE Append(acc, seq[i]))

\* the names at the second of the five pieces of every block of the text
SerializedNames(text) == [i \in 1..(Len(text) \div 5) |-> text[5 * (i - 1) + 2]]

C16_DefinitionOrder ==
    pc = "build" =>
        /\ \A i, j \in 1..Len(grammar.defn_order) :
              grammar.defn_order[i] = grammar.defn_order[j] => i = j
        /\ {grammar.defn_order[i] : i \in 1..Len(grammar.defn_order)} = DOMAIN grammar.definitions
        /\ Len(grammar.defn_order) = get_rule_count(grammar)
        /\ grammar.defn_order = FirstOccurrences(Introduced(Len(calls)), 1, <<>>)
        /\ Len(Display_Grammar(grammar)) = 5 * Len(grammar.defn_order)
        /\ SerializedNames(Display_Grammar(grammar))
              = FirstOccurrences(Introduced(Len(calls)), 1, <<>>)

\* two calls with synthesized rules, the second on a name defined before and
\* with a synthesized name the first call introduced already
C16_Witness ==
    /\ pc = "build" /\ Len(calls) = 2
    /\ calls[1].name = calls[2].name
    /\ calls[1].sb.defn_order # <<>>
    /\ \E i \in 1..Len(calls[2].sb.defn_order) :
          Contains(calls[1].sb.defn_order, calls[2].sb.defn_order[i])
    /\ Len(grammar.defn_order) < Len(Introduced(2))


\* ---------------------------------------------------------------------------
\* C17: the root definition name is the name of the first define/mark_define
\* call, and it is still that name after every later call, whether the call
\* adds synthesized rules, defines another name or defines the root name again.
C17_RootIsFirstDefined ==
    pc = "build" =>
        IF calls = <<>> THEN get_root_definition_name(grammar) = NoName
        ELSE get_root_definition_name(grammar) = calls[1].name

\* a second call that defines another name and brings synthesized rules
C17_Witness ==
    /\ pc = "build" /\ Len(calls) = 2
    /\ calls[2].name # calls[1].name
    /\ calls[2].sb.defn_order # <<>>
    /\ get_root_definition_name(grammar) = calls[1].name


\* ---------------------------------------------------------------------------
\* C18: builds that apply the same builder and define operations, each on its
\* own fresh RuleContext of the same rule name, mint the same synthesized names
\* and give the same serialized text; within one RuleContext the k-th minted
\* name is --<rule>.<hint><k>, with k counting from 1 and going on over the
\* builders that share the context.
MintedName(rule, hint, k) == "--" \o rule \o "." \o hint \o ToString(k)

SynNames(c) == {c.sb.defn_order[i] : i \in 1..Len(c.sb.defn_order)}

\* the calls before the i-th that are on its name
EarlierOn(i) == {j \in 1..(i - 1) : calls[j].name = calls[i].name}

\* the text of the grammar of the one call define("doc", seq().opt(seq().ch('a')))
\* on a fresh context
OptText ==
    <<"", "doc", "= ", << <<mark_nt("--doc.f-option1", "Mute")>> >>, ".\n",
      "-", "--doc.f-option1", "= ", << <<>>, <<ch("a")>> >>, ".\n">>

IsSynthesized(name) ==
    \E i \in 1..Len(calls) : \E h \in Hints : \E k \in calls[i].first_id..(calls[i].next_id - 1) :
        name = MintedName(calls[i].name, h, k)

\* the names of the nonterminals the factors of the grammar refer to
Referenced(g) ==
    UNION {UNION {{g.definitions[n].alts[a][f].name :
                      f \in {k \in DOMAIN g.definitions[n].alts[a] :
                                g.definitions[n].alts[a][k].t = "Nonterm"}} :
                  a \in DOMAIN g.definitions[n].alts} :
           n \in DOMAIN g.definitions}

C19_SynthesizedAreDefined ==
    pc = "build" =>
        /\ \A name \in Referenced(grammar) :
              IsSynthesized(name) => name \in DOMAIN grammar.definitions
        /\ \A i \in 1..Len(calls) : calls[i].sb.defn_order # <<>> =>
              \E name \in Referenced(grammar) : IsSynthesized(name)

\* a composite inside a composite, repeat0(opt("a")), followed by opt(x): the
\* four synthesized names of the builder are referred to and defined
C19_Witness ==
    /\ pc = "build" /\ Len(calls) = 1
    /\ calls[1].chain = 7
    /\ Len(calls[1].sb.defn_order) = 4
    /\ \A i \in 1..4 : calls[1].sb.defn_order[i] \in Referenced(grammar)
    /\ \A i \in 1..4 : calls[1].sb.defn_order[i] \in DOMAIN grammar.definitions


\* ---------------------------------------------------------------------------
\* C20: for the terminals F = "a" and S = "+", the rule doc built only from
\* opt(F), repeat0(F), repeat1(F), repeat0_sep(F, S) or repeat1_sep(F, S)
\* accepts exactly F^n with n <= 1, n >= 0, n >= 1, the empty input or
\* F(SF)^n, resp. F(SF)^n with n >= 0; and the tree of an accepted input is a
\* single doc element whose text is the whole input.
Composites == {GOpt, GStar, GPlus, GStarSep, GPlusSep}

AllF(inp) == \A i \in 1..Len(inp) : inp[i] = "a"

SeparatedF(inp) ==
    /\ Len(inp) % 2 = 1
    /\ \A i \in 1..Len(inp) : inp[i] = (IF i % 2 = 1 THEN "a" ELSE "+")

InLanguage(g, inp) ==
    IF g = GOpt THEN AllF(inp) /\ Len(inp) <= 1
    ELSE IF g = GStar THEN AllF(inp)
    ELSE IF g = GPlus THEN AllF(inp) /\ Len(inp) >= 1
    ELSE IF g = GStarSep THEN inp = <<>> \/ SeparatedF(inp)
    ELSE SeparatedF(inp)

\* Root, one Element doc below it, and below doc one Text node for each character
\* of the input, in order
SingleDocElement(nodes, inp) ==
    /\ Len(nodes) = Len(inp) + 2
    /\ nodes[1].kind = "Root"
    /\ nodes[2].kind = "Element" /\ nodes[2].name = "doc" /\ nodes[2].parent = 1
    /\ \A k \in 1..Len(inp) :
          /\ nodes[k + 2].kind = "Text"
          /\ nodes[k + 2].parent = 2
          /\ nodes[k + 2].value = inp[k]

C20_CompositeLanguages ==
    (grammar \in Composites /\ pc = "done") =>
        /\ result.kind = "Ok" /\ HasRootNode <=> InLanguage(grammar, input)
        /\ InLanguage(grammar, input) => SingleDocElement(result.arena, input)

\* the same with acceptance read off the recognizer: a root item spanning the
\* whole input completed
C20_RecognizedLanguages ==
    (grammar \in Composites /\ pc = "done") =>
        /\ RootCompleted <=> InLanguage(grammar, input)
        /\ InLanguage(grammar, input) =>
              result.kind = "Ok" /\ SingleDocElement(result.arena, input)


\* ---------------------------------------------------------------------------
\* C21: synthesized rules are never visible in the output.  Every definition
\* with a synthesized name (one that begins with --) has the mark Mute, and no
\* Element or Attribute node of a returned tree has such a name.
C21_SynthesizedHidden ==
    /\ \A n \in DOMAIN grammar.definitions :
          n \in SynthNames => grammar.definitions[n].mark = "Mute"
    /\ pc = "done" =>
          \A j \in 1..Len(result.arena) :
              result.arena[j].kind \in {"Element", "Attribute"}
                  => result.arena[j].name \notin SynthNames

\* a returned tree with a doc element whose walk went through the item of a
\* synthesized rule that a Default call site refers to
C21_Witness ==
    /\ pc = "done" /\ HasRootNode
    /\ \E n \in DOMAIN grammar.definitions : n \in SynthNames
    /\ \E k \in 1..Len(result.visits) :
          /\ get(traces, result.visits[k].tid).name \in SynthNames
          /\ result.visits[k].call_mark = "Default"
          /\ result.visits[k].node = 0


\* ---------------------------------------------------------------------------
\* C22: for the left-recursive arithmetic grammar (doc = S.  S = S, "+", M | M.
\* M = M, "*", T | T.  T = ["1234"].) every input of its language is accepted
\* with the left-associative tree of its one derivation; 1+2*3 serializes to
\* <doc><S><S><M><T>1</T></M></S>+<M><M><T>2</T></M>*<T>3</T></M></S></doc>.
Digits == {"1", "2", "3", "4"}

InWikiLanguage(inp) ==
    /\ Len(inp) % 2 = 1
    /\ \A i \in 1..Len(inp) :
          IF i % 2 = 1 THEN inp[i] \in Digits ELSE inp[i] \in {"+", "*"}

\* the place of the last op in inp, 0 when there is none
LastOf(inp, op) ==
    LET at == {i \in 1..Len(inp) : inp[i] = op}
    IN IF at = {} THEN 0 ELSE CHOOSE i \in at : \A j \in at : j <= i

\* the serialized left-associative trees of a product and of a sum
RECURSIVE WikiM(_)
WikiM(inp) ==
    LET k == LastOf(inp, "*")
    IN IF k = 0 THEN "<M><T>" \o inp[1] \o "</T></M>"
       ELSE "<M>" \o WikiM(SubSeq(inp, 1, k - 1)) \o "*<T>" \o inp[k + 1] \o "</T></M>"

RECURSIVE WikiS(_)
WikiS(inp) ==
    LET k == LastOf(inp, "+")
    IN IF k = 0 THEN "<S>" \o WikiM(inp) \o "</S>"
       ELSE "<S>" \o WikiS(SubSeq(inp, 1, k - 1)) \o "+"
                  \o WikiM(SubSeq(inp, k + 1, Len(inp))) \o "</S>"

C22_WikiLeftAssociative ==
    (grammar = GWiki /\ pc = "done" /\ InWikiLanguage(input)) =>
        /\ result.kind = "Ok"
        /\ RootCompleted
        /\ tree_to_testfmt(result.arena) = "<doc>" \o WikiS(input) \o "</doc>"
        /\ input = <<"1", "+", "2", "*", "3">> =>
              tree_to_testfmt(result.arena) =
                 "<doc><S><S><M><T>1</T></M></S>+<M><M><T>2</T></M>*<T>3</T></M></S></doc>"

\* parse has returned for 1+2*3
C22_Witness ==
    /\ grammar = GWiki /\ pc = "done"
    /\ input = <<"1", "+", "2", "*", "3">>
    /\ result.kind = "Ok" /\ Len(result.arena) > 10


\* ---------------------------------------------------------------------------
\* C23: for each built-in test set, the grammar the reflector builds from the
\* parse tree of its iXML source serializes to the same text as its hand-built
\* grammar: the same definitions in the same order, with the same rule marks,
\* call-site marks, tmarks and character classes.
TestSetOf(text) == {i \in 1..Len(BuiltinTests) : trim(BuiltinTests[i].ixml) = text}

C23_ReflectedEqualsHandBuilt ==
    (grammar = GIxml /\ pc = "done") =>
        \A i \in TestSetOf(input) :
            /\ Reflected.kind = "Ok"
            /\ Display_Grammar(Reflected.g) = Display_Grammar(BuiltinTests[i].grammar)

\* the same for the test sets whose source has neither a mark at a call site or
\* on a literal nor a character class: SmokeSeq, SmokeAlt and SmokeStarSep
C23_PlainSetsAgree ==
    (grammar = GIxml /\ pc = "done") =>
        \A i \in TestSetOf(input) :
            BuiltinTests[i] \in {SmokeSeq, SmokeAlt, SmokeStarSep} =>
                /\ Reflected.kind = "Ok"
                /\ Display_Grammar(Reflected.g) = Display_Grammar(BuiltinTests[i].grammar)

\* the reflected grammar of SmokeMute has the four rules of the hand-built one in
\* its order, with the marks of the rules
C23_MuteRulesAgree ==
    (grammar = GIxml /\ pc = "done" /\ input = trim(SmokeMute.ixml)) =>
        /\ Reflected.kind = "Ok"
        /\ SelectSeq(Reflected.g.defn_order, LAMBDA n : ~starts_with_hyphen(n))
              = <<"doc", "a", "b", "c">>
        /\ \A n \in {"doc", "a", "b", "c"} :
              Reflected.g.definitions[n].mark = SmokeMute.grammar.definitions[n].mark


\* ---------------------------------------------------------------------------
\* C24: round trip.  For every hand-built grammar G, from_ixml_str applied to
\* the serialized text of G succeeds and yields a grammar whose serialized text
\* equals that of G.
SerializedOf(text) == {g \in HandBuilt : trim(Display_Grammar_chars(g)) = text}

C24_RoundTrip ==
    (grammar = GIxml /\ pc = "done") =>
        \A g \in SerializedOf(input) :
            /\ Reflected.kind = "Ok"
            /\ Display_Grammar(Reflected.g) = Display_Grammar(g)

\* the round trip of a grammar whose alternatives are all empty
C24_EmptyAltRoundTrip ==
    (grammar = GIxml /\ pc = "done" /\ input = trim(Display_Grammar_chars(GEmptyAlt))) =>
        /\ Reflected.kind = "Ok"
        /\ Display_Grammar(Reflected.g) = Display_Grammar(GEmptyAlt)

\* the serialized text of a grammar with a factor: the bootstrap parse stops in
\* the {:?} text of the first factor, the tree it returns has no rule, and the
\* reflector returns its StaticError
C24_FactorTextRejected ==
    (grammar = GIxml /\ pc = "done") =>
        \A g \in SerializedOf(input) :
            g # GEmptyAlt =>
                /\ farthest_pos < Len(input)
                /\ result.kind = "Ok" /\ ~HasRootNode
                /\ Reflected.kind = StaticErr


\* ---------------------------------------------------------------------------
\* C25: from_ixml_str on text that is not a sentence of the bootstrap grammar
\* returns a DynamicError raised by the bootstrap parse; it never returns a
\* grammar and never reports the failure as a StaticError of the reflector.
MalformedTexts == {trim(t) : t \in Malformed}

C25_MalformedIsDynamicError ==
    (grammar = GIxml /\ input \in MalformedTexts /\ pc \in {"done", "cut"}) =>
        /\ pc = "done"
        /\ result.kind = "DynamicError"
        /\ Reflected.kind = "DynamicError"

\* what from_ixml_str does on these texts: the parse never returns an error; the
\* reflector gets a tree without a rule and returns its StaticError, or gets the
\* tree of a prefix that is a sentence and returns the grammar of the prefix
C25_MalformedOutcomes ==
    (grammar = GIxml /\ input \in MalformedTexts /\ pc = "done") =>
        /\ result.kind = "Ok"
        /\ IF input = <<"d", "o", "c", " ", "=", " ", "\"", "a", "\"", ".", "!">>
           THEN /\ Reflected.kind = "Ok"
                /\ Display_Grammar(Reflected.g) = Display_Grammar(define(Grammar_new, "doc", push_factor(SeqBuilder_new, ch("a"))))
           ELSE Reflected.kind = StaticErr

\* the text with the string left open: dchar accepts the end-of-input character
\* and the scanner goes on past the end of the text
C25_OpenStringRunsOn ==
    (grammar = GIxml /\ input = <<"d", "o", "c", " ", "=", " ", "\"", "a">>) => pc # "done"


\* ---------------------------------------------------------------------------
\* C26: Lit.accept(ch) is true iff some matcher matches ch when the Lit is not
\* excluded, and iff no matcher matches ch when it is excluded (the exact
\* complement); Exact matches its one character, OneOf any character of its
\* string, Range the characters from lo to hi inclusive.
SpecMatches(m, c) ==
    \/ m.k = "Exact" /\ c = m.bot
    \/ m.k = "OneOf" /\ \E i \in 1..Len(m.lst) : m.lst[i] = c
    \/ m.k = "Range" /\ Ord(m.bot) <= Ord(c) /\ Ord(c) <= Ord(m.top)

SpecAccepts(lit, c) ==
    IF lit.is_exclude
    THEN \A i \in 1..Len(lit.matchers) : ~SpecMatches(lit.matchers[i], c)
    ELSE \E i \in 1..Len(lit.matchers) : SpecMatches(lit.matchers[i], c)

\* the matchers, the lists of up to two of them, and the characters of the check
Matchers ==
    {Exact("a"), Exact("c"), OneOf(<<>>), OneOf(<<"a", "c">>), OneOf(<<"b", "d", "b">>),
     Range("a", "c"), Range("b", "b"), Range("c", "a"), Range("0", "9")}
MatcherLists == {<<>>} \cup {<<m>> : m \in Matchers} \cup {<<m, n>> : m, n \in Matchers}
TestChars == {"a", "b", "c", "d", "0", "9", ":", "/", EOFCHAR}

\* The table over MatcherLists and TestChars does not depend on the state of the
\* parser: it is evaluated in the states before the parse starts.
C26_LitAccept ==
    /\ pc = "new" =>
          \A ms \in MatcherLists, c \in TestChars :
              /\ Lit_accept(Lit(ms, FALSE), c) <=> SpecAccepts(Lit(ms, FALSE), c)
              /\ Lit_accept(Lit(ms, TRUE), c) <=> SpecAccepts(Lit(ms, TRUE), c)
              /\ Lit_accept(Lit(ms, TRUE), c) <=> ~Lit_accept(Lit(ms, FALSE), c)
    /\ last.kind \in {"scanner", "miss"} =>
          LET tk == get(traces, last.tid)
          IN (last.kind = "scanner")
                <=> SpecAccepts(next_unparsed(tk.dot).lit, get_at(input, tk.pos))

\* the scanner has just taken the character at the lower end of the inclusive
\* range ["a"-"z"]
C26_Witness ==
    /\ last.kind = "scanner"
    /\ LET tk == get(traces, last.tid)
       IN /\ next_unparsed(tk.dot).lit.matchers[1].k = "Range"
          /\ get_at(input, tk.pos) = next_unparsed(tk.dot).lit.matchers[1].bot

\* the scanner has just refused a character that an excluded class holds
C26_WitnessExcluded ==
    /\ last.kind = "miss"
    /\ next_unparsed(get(traces, last.tid).dot).lit.is_exclude


\* ---------------------------------------------------------------------------
\* C27: the result of parse(input) on a Parser depends only on its grammar and
\* that input: after any sequence of earlier parse calls on the same Parser
\* value, parse(y) returns the same tree that a fresh Parser with the same
\* grammar returns for y.
TreeOf(res) ==
    [kind |-> res.kind,
     nodes |-> [j \in 1..Len(res.arena) |->
                   [kind |-> res.arena[j].kind, name |-> res.arena[j].name,
                    value |-> res.arena[j].value, parent |-> res.arena[j].parent]]]

\* When the new Parser has returned, the last earlier call is the reused
\* Parser's call on the same input.
C27_ReuseEqualsFresh ==
    (pc = "done" /\ Len(earlier) = MaxReuse + 1) =>
        TreeOf(earlier[Len(earlier)].result) = TreeOf(result)

\* what the reused Parser returns: the result of its first call, whatever the
\* input of the later call, after a loop that ran no iteration
C27_ReuseReturnsFirst ==
    (pc = "done" /\ Len(earlier) \in 1..MaxReuse) =>
        /\ result = earlier[1].result
        /\ last.kind = "finish"
        /\ completed_trace # <<>> => traces.queue = <<>>


\* ---------------------------------------------------------------------------
\* C28: completer closure at termination: for every arena item c whose next
\* factor is a nonterminal n and every completed item t of the completed trace
\* with name n and origin = c.pos, the arena holds the item obtained from c by
\* advancing over n to pos t.pos, whatever the order in which c was predicted
\* and t was completed.
Waiting(c) == ~is_completed(c.dot) /\ next_unparsed(c.dot).t = "Nonterm"

\* the item the completer makes of c for the completed item t
AdvancedOver(c, t) ==
    [name |-> c.name, mark |-> c.mark, origin |-> c.origin, pos |-> t.pos,
     dot |-> advance_dot(c.dot, NonTerm(next_unparsed(c.dot).name, t.pos,
                                         next_unparsed(c.dot).mark))]

Holds(item) ==
    \E k \in 1..Len(traces.arena) :
        [f \in {"name", "mark", "origin", "pos", "dot"} |-> traces.arena[k][f]] = item

MissedBy(c, t) ==
    /\ Waiting(c)
    /\ next_unparsed(c.dot).name = t.name
    /\ t.origin = c.pos
    /\ ~Holds(AdvancedOver(c, t))

C28_CompleterClosure ==
    (pc = "done" /\ last.kind = "finish") =>
        \A i \in 1..Len(traces.arena), j \in 1..Len(completed_trace) :
            ~MissedBy(traces.arena[i], get(traces, completed_trace[j]))

\* the closure the code does reach: over the runs that complete no item of an
\* empty span
C28_ClosureWithoutEmptyItems ==
    (/\ pc = "done" /\ last.kind = "finish"
     /\ \A j \in 1..Len(completed_trace) :
            get(traces, completed_trace[j]).origin < get(traces, completed_trace[j]).pos) =>
        \A i \in 1..Len(traces.arena), j \in 1..Len(completed_trace) :
            ~MissedBy(traces.arena[i], get(traces, completed_trace[j]))


\* ---------------------------------------------------------------------------
\* C29: the set of completed items (name, effective mark, origin, pos) at
\* termination does not depend on the queue discipline: a run that pushes
\* predictor results to the back of the queue instead of the front ends with
\* the same completed-item membership as the implemented run, for every
\* grammar and input.
Membership(items) == {items[j] : j \in 1..Len(items)}

C29_SameCompletedItems ==
    (pc = "done" /\ last.kind = "finish" /\ earlier # <<>>) =>
        Membership(completed_items(traces, completed_trace))
            = Membership(earlier[1].completed)

\* what the two runs share: the implemented run completes no item the other
\* run does not complete, and they agree when the implemented run completed no
\* item of an empty span
C29_FrontWithinBack ==
    (pc = "done" /\ last.kind = "finish" /\ earlier # <<>>) =>
        /\ Membership(earlier[1].completed)
               \subseteq Membership(completed_items(traces, completed_trace))
        /\ (\A j \in 1..Len(earlier[1].completed) :
                earlier[1].completed[j].origin < earlier[1].completed[j].pos)
              => Membership(earlier[1].completed)
                    = Membership(completed_items(traces, completed_trace))


\* ---------------------------------------------------------------------------
\* C30: tree construction terminates for every completed trace the recognizer
\* produces, including grammars with unit cycles (A = B. B = A | "a".) and
\* nullable rules, and its progress assertion never fails: the walk of
\* (name, origin, end) never reaches a NonTerm record with the same name,
\* start and end.
\* The walk ends within its depth budget without the failed assertion, and every
\* call below the first looks at an item that was completed before the item of
\* its caller: the place in the completed trace falls along every path of the
\* recursion.
PlaceOf(tid) == CHOOSE j \in 1..Len(completed_trace) : completed_trace[j] = tid

C30_WalkTerminates ==
    (pc = "done" /\ last.kind = "finish") =>
        /\ result.kind = "Ok"
        /\ \A v \in 1..Len(result.visits) :
              result.visits[v].up # 0 =>
                  PlaceOf(result.visits[v].tid)
                      < PlaceOf(result.visits[result.visits[v].up].tid)

\* a walk went three items deep through a completed trace in which some item
\* was completed a second time with the same name and span
C30_Witness ==
    /\ pc = "done" /\ last.kind = "finish" /\ result.kind = "Ok"
    /\ \E v \in 1..Len(result.visits) :
          /\ result.visits[v].up # 0
          /\ result.visits[result.visits[v].up].up # 0
    /\ \E i, j \in 1..Len(completed_trace) :
          /\ i < j
          /\ get(traces, completed_trace[i]).name = get(traces, completed_trace[j]).name
          /\ get(traces, completed_trace[i]).origin = get(traces, completed_trace[j]).origin
          /\ get(traces, completed_trace[i]).pos = get(traces, completed_trace[j]).pos
          /\ \E v \in 1..Len(result.visits) : result.visits[v].tid = completed_trace[i]


\* ---------------------------------------------------------------------------
\* C31: every synthesized definition in a grammar holds exactly the
\* alternatives of the one composite-builder call that minted its name (opt:
\* the empty rule and F; repeat0, repeat1, repeat1_sep, repeat0_sep: one; alts
\* of k: k), also when a rule name is defined more than once, for example by
\* two iXML rules with the same name that the reflector merges.
\* the alternatives the builder of call c holds for the name it minted
MintedAlts(c, name) ==
    [j \in 1..Len(c.sb.syn_rules[name]) |-> c.sb.syn_rules[name][j].factors]

Minters(name) == {i \in 1..Len(calls) : name \in SynNames(calls[i])}

RECURSIVE AltsOfCalls(_, _, _)
AltsOfCalls(name, i, acc) ==
    IF i > Len(calls) THEN acc
    ELSE AltsOfCalls(name, i + 1,
            IF name \in SynNames(calls[i]) THEN acc \o MintedAlts(calls[i], name) ELSE acc)

C31_SynthesizedOfOneCall ==
    pc = "build" =>
        \A name \in DOMAIN grammar.definitions :
            Minters(name) # {} =>
                /\ \A i \in Minters(name) :
                      grammar.definitions[name].alts = MintedAlts(calls[i], name)
                /\ \A k \in FirstId..(FirstId + Cardinality(Hints)) :
                      name = MintedName("doc", "f-option", k) =>
                          /\ Len(grammar.definitions[name].alts) = 2
                          /\ grammar.definitions[name].alts[1] = <<>>

\* what a synthesized definition holds: the alternatives of every call that
\* minted its name, in call order; those of one call when no other minted it
C31_SynthesizedOfAllCalls ==
    pc = "build" =>
        \A name \in DOMAIN grammar.definitions :
            Minters(name) # {} =>
                /\ grammar.definitions[name].alts = AltsOfCalls(name, 1, <<>>)
                /\ grammar.definitions[name].mark = "Mute"
                /\ Cardinality(Minters(name)) = 1 =>
                      \A i \in Minters(name) :
                          grammar.definitions[name].alts = MintedAlts(calls[i], name)


\* ---------------------------------------------------------------------------
\* C32: item creation is suppressed if and only if the arena already holds an
\* item with the same name, effective mark, origin, pos, rule and match
\* records: no two arena items agree on all of these, and the textual dedup key
\* never identifies two items that differ in one of them (for instance mark
\* Mute with name a versus mark Default with name -a).
Signature(tk) ==
    [name |-> tk.name, mark |-> tk.mark, origin |-> tk.origin, pos |-> tk.pos, dot |-> tk.dot]

\* the item task_advance_cursor builds from an item and a match record
AdvancedBy(from_task, rec) ==
    [name |-> from_task.name, mark |-> from_task.mark, origin |-> from_task.origin,
     pos |-> rec.pos, dot |-> advance_dot(from_task.dot, rec)]

\* the items the loop iteration on the head of the queue hands to have_we_seen
Attempts ==
    IF pc # "loop" \/ traces.queue = <<>> THEN {}
    ELSE IF is_completed(HeadTask.dot)
    THEN {AdvancedBy(get(traces, c),
                     IF next_unparsed(get(traces, c).dot).t = "Nonterm"
                     THEN NonTerm(next_unparsed(get(traces, c).dot).name, HeadTask.pos,
                                  next_unparsed(get(traces, c).dot).mark)
                     ELSE Term("?", HeadTask.pos, next_unparsed(get(traces, c).dot).mark)) :
             c \in {get_continuations_for(traces, HeadTask.name)[i] :
                       i \in {k \in 1..Len(get_continuations_for(traces, HeadTask.name)) :
                                 get(traces, get_continuations_for(traces, HeadTask.name)[k]).pos
                                     = HeadTask.origin}}}
    ELSE IF next_unparsed(HeadTask.dot).t = "Nonterm"
    THEN IF ~contains_key(grammar, next_unparsed(HeadTask.dot).name) THEN {}
         ELSE {[name |-> next_unparsed(HeadTask.dot).name,
                mark |-> effective_mark(
                            get_definition_mark(grammar, next_unparsed(HeadTask.dot).name),
                            next_unparsed(HeadTask.dot).mark),
                origin |-> HeadTask.pos, pos |-> HeadTask.pos,
                dot |-> DotNotation_new(
                            get_definition(grammar, next_unparsed(HeadTask.dot).name).alts[i])] :
                  i \in 1..Len(get_definition(grammar, next_unparsed(HeadTask.dot).name).alts)}
    ELSE IF ScanAccepts
    THEN {AdvancedBy(HeadTask, Term(get_at(input, HeadTask.pos), HeadTask.pos + 1,
                                    next_unparsed(HeadTask.dot).mark))}
    ELSE {}

ArenaSignatures == {Signature(traces.arena[k]) : k \in 1..Len(traces.arena)}

C32_DedupBySignature ==
    /\ \A i, j \in 1..Len(traces.arena) :
          Signature(traces.arena[i]) = Signature(traces.arena[j]) => i = j
    /\ \A y \in Attempts :
          have_we_seen(traces, y) <=> y \in ArenaSignatures


\* what the dedup set does decide by: the text of Display for Task, which writes
\* mark and name one after the other and leaves out the factors before the dot
C32_DedupByText ==
    /\ \A i, j \in 1..Len(traces.arena) :
          Signature(traces.arena[i]) = Signature(traces.arena[j]) => i = j
    /\ traces.hashes = {TaskStr(traces.arena[k]) : k \in 1..Len(traces.arena)}
    /\ \A y \in Attempts :
          (have_we_seen(traces, y) /\ y \notin ArenaSignatures) =>
              \E k \in 1..Len(traces.arena) :
                  /\ TaskStr(traces.arena[k]) = TaskStr(y)
                  /\ traces.arena[k].origin = y.origin /\ traces.arena[k].pos = y.pos
                  /\ traces.arena[k].dot.matched_so_far = y.dot.matched_so_far
                  /\ \/ traces.arena[k].name # y.name /\ traces.arena[k].mark # y.mark
                     \/ traces.arena[k].dot.iteratee # y.dot.iteratee


\* ---------------------------------------------------------------------------
\* C33: the match record the completer appends to a continuation is
\* NonTerm(t.name, t.pos, m) where m is the effective mark of the completed
\* item t, for every pair of call-site mark and definition mark.
\* the end position of the record before the k-th of an item, or its origin
EndBefore(tk, k) == IF k = 1 THEN tk.origin ELSE tk.dot.matched_so_far[k - 1].pos

\* the NonTerm records of the arena items, as pairs of item index and record index
NonTermRecords ==
    UNION {{<<i, k>> : k \in {n \in 1..Len(traces.arena[i].dot.matched_so_far) :
                                traces.arena[i].dot.matched_so_far[n].t = "NonTerm"}} :
           i \in 1..Len(traces.arena)}

\* the completed items a record can have been appended for
CompletedFor(i, k) ==
    {t \in Completed :
        /\ t.name = traces.arena[i].dot.matched_so_far[k].sym
        /\ t.origin = EndBefore(traces.arena[i], k)
        /\ t.pos = traces.arena[i].dot.matched_so_far[k].pos}

C33_RecordHasEffectiveMark ==
    \A ik \in NonTermRecords :
        \E t \in CompletedFor(ik[1], ik[2]) :
            traces.arena[ik[1]].dot.matched_so_far[ik[2]].mark = t.mark

\* what the record holds: name and mark of the factor it stands for, the mark
\* being the one written at the call site, and the pos of a completed item of
\* that name whose mark is the effective mark of that call-site mark
C33_RecordHasCallSiteMark ==
    \A ik \in NonTermRecords :
        LET tk == traces.arena[ik[1]]
            rec == tk.dot.matched_so_far[ik[2]]
            factor == tk.dot.iteratee[ik[2]]
        IN /\ factor.t = "Nonterm"
           /\ rec.sym = factor.name
           /\ rec.mark = factor.mark
           /\ \E t \in CompletedFor(ik[1], ik[2]) : TRUE


\* ---------------------------------------------------------------------------
\* C34: queue order: in every reachable state all queued items created by the
\* seed or by a predictor step are ahead of all queued items created by a
\* scanner or completer step, so every predicted item is dequeued before any
\* scanner or completer result; items are only removed from the front.
\* An item made by the seed or the predictor has no match record, an item made
\* by the scanner or the completer has one at least.
Predicted(tid) == get(traces, tid).dot.matched_so_far = <<>>

PredictedAhead ==
    \A i, j \in 1..Len(traces.queue) :
        (Predicted(traces.queue[j]) /\ ~Predicted(traces.queue[i])) => j < i

\* a step of the loop takes the head and leaves the rest of the queue in place,
\* with new ids in front of it and behind it; no other step takes an id away
RemovedFromFront ==
    IF pc = "loop" /\ traces.queue # <<>>
    THEN \E m \in 0..Len(traces'.queue), n \in 0..Len(traces'.queue) :
            /\ m + n + Len(traces.queue) - 1 = Len(traces'.queue)
            /\ SubSeq(traces'.queue, m + 1, m + Len(traces.queue) - 1) = Tail(traces.queue)
            /\ \A k \in (1..m) \cup ((Len(traces'.queue) - n + 1)..Len(traces'.queue)) :
                  traces'.queue[k] >= Len(traces.arena)
    ELSE \E m \in 0..Len(traces'.queue) :
            SubSeq(traces'.queue, m + 1, Len(traces'.queue)) = traces.queue

C34_QueueOrder == [](PredictedAhead) /\ [][RemovedFromFront]_vars

\* the predictor has just put an item in front of a queue that holds a result of
\* the scanner or the completer
C34_Witness ==
    /\ pc = "loop" /\ last.kind = "predictor"
    /\ Len(traces.queue) >= 2
    /\ Predicted(traces.queue[1])
    /\ traces.queue[1] >= last.arena_len
    /\ ~Predicted(traces.queue[Len(traces.queue)])


\* ---------------------------------------------------------------------------
\* C35: for every NonTerm(n, p, _) record of every arena item, with c the end
\* position of the preceding record (or the item's origin), the completed trace
\* holds a completed item with name n, origin c and pos p; tree construction
\* therefore never fails to find the item for a child record.
\* the calls the walk made from visit v that found their item
FoundBelow(v) == {w \in 1..Len(result.visits) : result.visits[w].up = v}

NonTermRecordsOf(tk) ==
    {k \in 1..Len(tk.dot.matched_so_far) : tk.dot.matched_so_far[k].t = "NonTerm"}

C35_ChildItemsCompleted ==
    /\ \A i \in 1..Len(traces.arena) : \A k \in NonTermRecordsOf(traces.arena[i]) :
          \E j \in 1..Len(completed_trace) :
              /\ get(traces, completed_trace[j]).name = traces.arena[i].dot.matched_so_far[k].sym
              /\ get(traces, completed_trace[j]).origin = EndBefore(traces.arena[i], k)
              /\ get(traces, completed_trace[j]).pos = traces.arena[i].dot.matched_so_far[k].pos
    /\ (pc = "done" /\ last.kind = "finish" /\ result.kind = "Ok") =>
          \A v \in 1..Len(result.visits) :
              Cardinality(FoundBelow(v))
                  = Cardinality(NonTermRecordsOf(get(traces, result.visits[v].tid)))

\* the walk has found the items of two child records of one item
C35_Witness ==
    /\ pc = "done" /\ last.kind = "finish" /\ result.kind = "Ok"
    /\ \E v \in 1..Len(result.visits) :
          /\ Cardinality(FoundBelow(v)) = 2
          /\ Cardinality(NonTermRecordsOf(get(traces, result.visits[v].tid))) = 2


\* ---------------------------------------------------------------------------
\* C36: for every arena item, pos equals the end position of its last match
\* record, or its origin when it has none; the end positions of its match
\* records are non-decreasing from origin, a Term record ends exactly one
\* position after the previous end, and the number of records never exceeds the
\* number of factors of its rule.
C36_ItemPositions ==
    \A i \in 1..Len(traces.arena) :
        LET tk == traces.arena[i]
            recs == tk.dot.matched_so_far
        IN /\ tk.pos = EndBefore(tk, Len(recs) + 1)
           /\ Len(recs) <= Len(tk.dot.iteratee)
           /\ \A k \in 1..Len(recs) :
                 /\ recs[k].pos >= EndBefore(tk, k)
                 /\ recs[k].t = "Term" => recs[k].pos = EndBefore(tk, k) + 1
                 /\ recs[k].t = "Term" <=> tk.dot.iteratee[k].t = "Terminal"

\* an item with a NonTerm record of an empty span and a Term record, which ends
\* past its origin
C36_Witness ==
    \E i \in 1..Len(traces.arena) :
        LET tk == traces.arena[i]
            recs == tk.dot.matched_so_far
        IN /\ \E k \in 1..Len(recs) : recs[k].t = "NonTerm" /\ recs[k].pos = EndBefore(tk, k)
           /\ \E k \in 1..Len(recs) : recs[k].t = "Term"
           /\ tk.pos > tk.origin


\* ---------------------------------------------------------------------------
\* C37: the item arena is append-only with id = index: arena[i].id = i in every
\* reachable state, a stored item is never changed or removed, and every id is
\* put on the queue exactly once (when it is created) and dequeued at most once.
\* TraceId counts from 0: the item of id i is the (i+1)-th of the sequence
IdIsIndex ==
    /\ \A i \in 0..(Len(traces.arena) - 1) : get(traces, i).id = i
    /\ \A k \in 1..Len(traces.queue) : traces.queue[k] \in 0..(Len(traces.arena) - 1)
    /\ \A k, m \in 1..Len(traces.queue) : traces.queue[k] = traces.queue[m] => k = m

\* a step keeps the stored items, queues exactly the ids it creates, once each,
\* and queues no id that was stored before and is not queued now
AppendOnly ==
    /\ Len(traces'.arena) >= Len(traces.arena)
    /\ SubSeq(traces'.arena, 1, Len(traces.arena)) = traces.arena
    /\ \A id \in Len(traces.arena)..(Len(traces'.arena) - 1) :
          Cardinality({k \in 1..Len(traces'.queue) : traces'.queue[k] = id}) = 1
    /\ \A k \in 1..Len(traces'.queue) :
          traces'.queue[k] < Len(traces.arena) =>
              \E m \in 1..Len(traces.queue) : traces.queue[m] = traces'.queue[k]
    /\ (pc = "loop" /\ traces.queue # <<>>) =>
          \A k \in 1..Len(traces'.queue) : traces'.queue[k] # Head(traces.queue)

C37_AppendOnlyArena == [](IdIsIndex) /\ [][AppendOnly]_vars

\* some ids have been taken from the queue, others wait, and the last step
\* stored a new item
C37_Witness ==
    /\ pc = "loop"
    /\ Len(traces.arena) >= 4
    /\ traces.queue # <<>>
    /\ Len(traces.queue) + 2 <= Len(traces.arena)
    /\ last.arena_len < Len(traces.arena)


\* ---------------------------------------------------------------------------
\* C38: a scanner step whose character class does not accept the character at
\* the item's pos raises no error and changes nothing except removing the
\* processed id from the queue: arena, dedup set, continuation index and
\* completed trace are unchanged.
\* the head of the queue is an item whose next factor is a terminal that does
\* not accept the character at its pos
AtMiss ==
    /\ pc = "loop" /\ traces.queue # <<>>
    /\ ~is_completed(HeadTask.dot)
    /\ next_unparsed(HeadTask.dot).t = "Terminal"
    /\ ~ScanAccepts

\* arena, dedup set and continuation index stay, the queue loses its head, the
\* completed trace stays and the run goes on without a result
MissKeeps ==
    /\ traces'.arena = traces.arena
    /\ traces'.hashes = traces.hashes
    /\ traces'.continuations = traces.continuations
    /\ traces'.queue = Tail(traces.queue)
    /\ completed_trace' = completed_trace
    /\ pc' = "loop" /\ result' = result
    /\ grammar' = grammar /\ input' = input

\* as stated: nothing else of the Parser changes
C38_MissChangesQueueOnly ==
    [][AtMiss => (MissKeeps /\ farthest_pos' = farthest_pos)]_vars

\* as the code has it: the iteration also raises farthest_pos to the pos of the
\* item it took, when that is larger
C38_MissChangesQueueAndFarthest ==
    [][AtMiss => (/\ MissKeeps
                  /\ farthest_pos' = IF HeadTask.pos > farthest_pos
                                     THEN HeadTask.pos ELSE farthest_pos)]_vars

\* a miss has just been taken on the first item that reached its pos: the other
\* items at that pos, if any, are still queued
C38_Witness ==
    /\ pc = "loop" /\ last.kind = "miss"
    /\ farthest_pos > 0
    /\ get(traces, last.tid).pos = farthest_pos
    /\ \A i \in 0..(Len(traces.arena) - 1) :
          (i # last.tid /\ get(traces, i).pos = farthest_pos) =>
              \E k \in 1..Len(traces.queue) : traces.queue[k] = i

====
